---------------------------- MODULE Spec2Model ----------------------------
(***************************************************************************)
(* A model of the Ham interpreter core (crate ham_core): the scoped stack  *)
(* (stack.rs), value resolution and stringification (runtime.rs) and the   *)
(* tree-walking evaluator run_ast with the user-function callback (lib.rs).*)
(*                                                                         *)
(* Text (String) is a sequence of one-character strings, so that prefixes  *)
(* ('&'), concatenation and decimal spelling are computed, not assumed.    *)
(* Box<dyn PrimitiveValueBase> is a record whose field t is the variant    *)
(* actually stored; BoxedValue.interface / VariableDef.val_type are kept   *)
(* separately, as in the source, so the two can disagree.                  *)
(***************************************************************************)
EXTENDS Integers, Sequences, FiniteSets, TLC

VARIABLES
    variables,   \* Stack.variables : Vec<VariableDef>
    functions,   \* Stack.functions : HashMap<String, FunctionDef>, a set of [key, def]
    item_index,  \* Stack.item_index : u64
    uuid,        \* number of Uuid::new_v4() values drawn at run time
    frames,      \* the evaluator's activations, innermost first
    ret,         \* the Option<BoxedValue> being returned to the innermost activation
    mode,        \* "exec": innermost activation runs; "ret": it receives ret
    errors,      \* diagnostics printed by errors::raise_error, in order
    out,         \* text written by print / println, one entry per call
    status,      \* "running", "done", "halted", "api", a lexer stage or one of PanicStatuses
    prog,        \* the program being run
    code,        \* the source text handed to get_tokens
    lines,       \* get_lines(code) : LinesList
    created_tokens, \* transform_into_tokens(lines) : TokensList
    stack_lock   \* the Mutex<Stack>: "free", "held" (a MutexGuard is alive) or "deadlock"

\* the lexer's part of the state
lexVars == <<code, lines, created_tokens>>

vars == <<variables, functions, item_index, uuid, frames, ret, mode, errors, out, status, prog,
          code, lines, created_tokens, stack_lock>>

-----------------------------------------------------------------------------
(* Bounds of the model *)

\* run-time blocks (Uuid draws) one run may open before it is halted
MaxUuid == 14
\* ids the stack-API specification hands out
MaxApiIndex == 4
\* largest N of the counting loops `while i != N`
MaxCount == 3
\* number of pieces a lexed source text is put together from
MaxPieces == 3
\* largest value and addend of the programs adding with sum and mut_sum
MaxNumber == 3
\* the parser is run on every list of MaxTokens words or fewer
MaxTokens == 3

-----------------------------------------------------------------------------
(* Option and text helpers *)

None == [some |-> FALSE]
Some(x) == [some |-> TRUE, val |-> x]

Digits == <<"0", "1", "2", "3", "4", "5", "6", "7", "8", "9">>

\* u64 / usize to_string(): decimal digits, no leading zeros
RECURSIVE NumToStr(_)
NumToStr(n) ==
    IF n < 10 THEN <<Digits[n + 1]>>
    ELSE NumToStr(n \div 10) \o <<Digits[(n % 10) + 1]>>

\* bool to_string()
BoolToStr(b) == IF b THEN <<"t", "r", "u", "e">> ELSE <<"f", "a", "l", "s", "e">>

\* Vec<String>::join(sep)
RECURSIVE Join(_, _)
Join(strs, sep) ==
    IF Len(strs) = 0 THEN <<>>
    ELSE IF Len(strs) = 1 THEN strs[1]
    ELSE strs[1] \o sep \o Join(Tail(strs), sep)

\* str::starts_with('&')
StartsWithAmp(s) == Len(s) > 0 /\ s[1] = "&"

-----------------------------------------------------------------------------
(* Scope ids.  Expression.expr_id and FunctionDef.expr_id are Uuid strings; *)
(* the model keeps where the id was drawn and its ordinal.                  *)

RootId == [src |-> "root", n |-> 0]
EmptyId == [src |-> "empty", n |-> 0]
RunId(n) == [src |-> "run", n |-> n]
ParseId(n) == [src |-> "parse", n |-> n]

-----------------------------------------------------------------------------
(* Primitive values and boxed values *)

NumberVal(n) == [t |-> "Number", n |-> n]
StringVal(s) == [t |-> "String", s |-> s]
BooleanVal(b) == [t |-> "Boolean", b |-> b]
PointerVal(p) == [t |-> "Pointer", p |-> p]
ReferenceVal(r) == [t |-> "Reference", r |-> r]

BoxedValue(interface, value) == [interface |-> interface, value |-> value]

Num(n) == BoxedValue("Number", NumberVal(n))
Str(s) == BoxedValue("String", StringVal(s))
Bool(b) == BoxedValue("Boolean", BooleanVal(b))
Ptr(p) == BoxedValue("Pointer", PointerVal(p))
Ref(r) == BoxedValue("Reference", ReferenceVal(r))


-----------------------------------------------------------------------------
(* HashMap<String, V>: a set of [key, def] entries with at most one entry   *)
(* per key.  A key is a name or the text of a scope id.                     *)

NameKey(s) == [name |-> s]
IdKey(id) == [id |-> id]

HashMapInsert(m, k, d) == {e \in m : e.key # k} \cup {[key |-> k, def |-> d]}

HashMapGet(m, k) ==
    IF \E e \in m : e.key = k
    THEN Some((CHOOSE e \in m : e.key = k).def)
    ELSE None

-----------------------------------------------------------------------------
(* Names used by the stack and the runtime *)

n_clear == <<"c", "l", "e", "a", "r">>
n_format == <<"f", "o", "r", "m", "a", "t">>
n_print == <<"p", "r", "i", "n", "t">>
n_println == <<"p", "r", "i", "n", "t", "l", "n">>
n_wait == <<"w", "a", "i", "t">>
n_sum == <<"s", "u", "m">>
n_mut_sum == <<"m", "u", "t", "_", "s", "u", "m">>
n_underscore == <<"_">>

-----------------------------------------------------------------------------
(* stack.rs *)

FunctionDef(name, body, arguments, cb, expr_id) ==
    [name |-> name, body |-> body, arguments |-> arguments, cb |-> cb, expr_id |-> expr_id]

VariableDef(name, val_type, value, expr_id, fns, var_id) ==
    [name |-> name, val_type |-> val_type, value |-> value, expr_id |-> expr_id,
     functions |-> fns, var_id |-> var_id]

Builtin(name, cb, expr_id) == FunctionDef(name, <<>>, <<>>, cb, expr_id)

\* the five built-ins Stack::new inserts, as <<key and name, callback>>
Builtins ==
    {<<n_clear, "clear">>, <<n_format, "format">>, <<n_print, "print">>,
     <<n_println, "println">>, <<n_wait, "wait">>}

\* Stack::new
StackNew(expr_id) ==
    [variables |-> <<>>,
     functions |-> {[key |-> NameKey(b[1]), def |-> Builtin(b[1], b[2], expr_id)] :
                        b \in Builtins},
     item_index |-> 0]

\* reseve_index returning item_index without advancing it
reseve_index_stuck(idx) == idx

\* Stack::reseve_index: the counter after the call, which is the id returned
reseve_index(idx) == idx + 1

\* Stack::push_variable
push_variable(vs, var) == Append(vs, var)

\* Stack::push_function (the key is the definition's expr_id)
push_function(fns, function) == HashMapInsert(fns, IdKey(function.expr_id), function)

\* Stack::drop_ops_from_id, the retain over variables
retain_variables(vs, id) == SelectSeq(vs, LAMBDA var : var.expr_id # id)

\* a drop that leaves the functions alone
retain_functions_kept(fns, id) == fns

\* Stack::drop_ops_from_id, the retain over functions
retain_functions(fns, id) == {e \in fns : e.def.expr_id # id}

\* Stack::drop_ops_from_id
drop_ops_from_id(st, id) ==
    [st EXCEPT !.variables = retain_variables(st.variables, id),
               !.functions = retain_functions(st.functions, id)]

\* position found by get_mut_variable_by_id (first match), 0 when absent
IndexById(vs, var_id) ==
    IF \E i \in 1..Len(vs) : vs[i].var_id = var_id
    THEN CHOOSE i \in 1..Len(vs) :
            /\ vs[i].var_id = var_id
            /\ \A j \in 1..(i - 1) : vs[j].var_id # var_id
    ELSE 0

\* the scan of get_variable_by_name without rev(): first match
IndexByName_first(vs, var_name) ==
    IF \E i \in 1..Len(vs) : vs[i].name = var_name
    THEN CHOOSE i \in 1..Len(vs) :
            /\ vs[i].name = var_name
            /\ \A j \in 1..(i - 1) : vs[j].name # var_name
    ELSE 0

\* position found by get_mut_variable_by_name (iter().rev(): last match), 0 when absent
IndexByName(vs, var_name) ==
    IF \E i \in 1..Len(vs) : vs[i].name = var_name
    THEN CHOOSE i \in 1..Len(vs) :
            /\ vs[i].name = var_name
            /\ \A j \in (i + 1)..Len(vs) : vs[j].name # var_name
    ELSE 0

\* Stack::get_variable_by_id
get_variable_by_id(vs, var_id) ==
    IF IndexById(vs, var_id) = 0 THEN None ELSE Some(vs[IndexById(vs, var_id)])

\* Stack::get_variable_by_name
get_variable_by_name(vs, var_name) ==
    IF IndexByName(vs, var_name) = 0 THEN None ELSE Some(vs[IndexByName(vs, var_name)])

\* Stack::get_function_by_name: the definitions a scan of functions.values() can
\* return first; the HashMap's iteration order decides among several
StackFunctionsByName(fns, fn_name) == {e.def : e \in {x \in fns : x.def.name = fn_name}}

\* VariableDef::get_function_by_name
VariableFunctionByName(var, fn_name) == HashMapGet(var.functions, NameKey(fn_name))

\* a modify_var that says nothing when the name is missing
modify_var_silent(st, var_name, value) ==
    LET vs == st.variables
        i == IndexByName(vs, var_name)
    IN  IF i = 0
        THEN [st |-> st, errs |-> <<>>, panic |-> FALSE]
        ELSE [st |-> [st EXCEPT !.variables[i].value = value.value],
              errs |-> <<>>, panic |-> FALSE]

\* Stack::modify_var: [st, errs, panic]
modify_var(st, var_name, value) ==
    LET vs == st.variables
        i == IndexByName(vs, var_name)
    IN  IF i = 0
        THEN [st |-> st, errs |-> <<"VariableNotFound">>, panic |-> FALSE]
        ELSE IF vs[i].val_type = "Pointer"
        THEN IF vs[i].value.t # "Pointer"
             THEN [st |-> st, errs |-> <<>>, panic |-> TRUE]
             ELSE LET j == IndexById(vs, vs[i].value.p)
                  IN  IF j = 0
                      THEN [st |-> st, errs |-> <<>>, panic |-> FALSE]
                      ELSE [st |-> [st EXCEPT !.variables[j].value = value.value,
                                              !.variables[j].val_type = value.interface],
                            errs |-> <<>>, panic |-> FALSE]
        ELSE [st |-> [st EXCEPT !.variables[i].value = value.value],
              errs |-> <<>>, panic |-> FALSE]

-----------------------------------------------------------------------------
(* runtime.rs *)

\* downcast_val::<T>: succeeds only on the variant actually stored
Downcasts(value, variant) == value.t = variant

\* value_to_string: [tag |-> "Ok", s], [tag |-> "Err", e] or [tag |-> "Panic"];
\* depth counts the pointer hops still allowed before the recursion is cut off
\* as a stack overflow
RECURSIVE value_to_string_rec(_, _, _)
value_to_string_rec(value, vs, depth) ==
    CASE value.interface = "Boolean" ->
            IF Downcasts(value.value, "Boolean")
            THEN [tag |-> "Ok", s |-> BoolToStr(value.value.b)]
            ELSE [tag |-> "Panic", why |-> "panic_downcast"]
      [] value.interface = "String" ->
            IF Downcasts(value.value, "String")
            THEN [tag |-> "Ok", s |-> value.value.s]
            ELSE [tag |-> "Panic", why |-> "panic_downcast"]
      [] value.interface = "Number" ->
            IF Downcasts(value.value, "Number")
            THEN [tag |-> "Ok", s |-> NumToStr(value.value.n)]
            ELSE [tag |-> "Panic", why |-> "panic_downcast"]
      [] value.interface = "Pointer" ->
            IF ~Downcasts(value.value, "Pointer")
            THEN [tag |-> "Panic", why |-> "panic_downcast"]
            ELSE LET variable == get_variable_by_id(vs, value.value.p)
                 IN  IF ~variable.some
                     THEN [tag |-> "Panic", why |-> "panic_unwrap_none"]
                     ELSE IF depth = 0
                     THEN [tag |-> "Panic", why |-> "panic_stack_overflow"]
                     ELSE value_to_string_rec(
                              BoxedValue(variable.val.val_type, variable.val.value),
                              vs, depth - 1)
      [] OTHER -> [tag |-> "Err", e |-> value.interface]

value_to_string(value, vs) == value_to_string_rec(value, vs, Len(vs))

\* values_to_strings: every element unwrapped; panic is "" or the reason
values_to_strings(values, vs) ==
    LET rs == [i \in 1..Len(values) |-> value_to_string(values[i], vs)]
        bad == {i \in 1..Len(values) : rs[i].tag # "Ok"}
        first == CHOOSE i \in bad : \A j \in bad : i <= j
    IN  IF bad # {}
        THEN [panic |-> IF rs[first].tag = "Panic" THEN rs[first].why
                        ELSE "panic_unwrap_err",
              strs |-> <<>>]
        ELSE [panic |-> "", strs |-> [i \in 1..Len(values) |-> rs[i].s]]

\* the built-in methods of a primitive type
NumberMethod(name, cb) == FunctionDef(name, <<>>, <<>>, cb, EmptyId)

\* get_methods_in_type
get_methods_in_type(val_type) ==
    IF val_type = "Number"
    THEN {[key |-> NameKey(n_sum), def |-> NumberMethod(n_sum, "sum")],
          [key |-> NameKey(n_mut_sum), def |-> NumberMethod(n_mut_sum, "mut_sum")]}
    ELSE {}

\* the operand handed back as it is
resolve_reference_unresolved(vs, val_type, ref_val) ==
    [res |-> Some(BoxedValue(val_type, ref_val)), errs |-> <<>>, panic |-> ""]

\* resolve_reference, the arms that finish without calling a function:
\* [res, errs, panic]
\* a resolve_reference that hands out the variable itself for a plain name
resolve_reference_sharing(vs, val_type, ref_val) ==
    IF val_type = "Reference" /\ Downcasts(ref_val, "Reference")
    THEN LET name == IF StartsWithAmp(ref_val.r) THEN Tail(ref_val.r) ELSE ref_val.r
             variable == get_variable_by_name(vs, name)
         IN  IF variable.some
             THEN [res |-> Some(Ptr(variable.val.var_id)), errs |-> <<>>, panic |-> ""]
             ELSE [res |-> None, errs |-> <<"VariableNotFound">>, panic |-> ""]
    ELSE [res |-> Some(BoxedValue(val_type, ref_val)), errs |-> <<>>, panic |-> ""]

resolve_reference(vs, val_type, ref_val) ==
    CASE val_type = "Pointer" ->
            IF ~Downcasts(ref_val, "Pointer")
            THEN [res |-> None, errs |-> <<>>, panic |-> "panic_downcast"]
            ELSE LET variable == get_variable_by_id(vs, ref_val.p)
                 IN  IF variable.some
                     THEN [res |-> Some(BoxedValue(variable.val.val_type, variable.val.value)),
                           errs |-> <<>>, panic |-> ""]
                     ELSE [res |-> None, errs |-> <<"BrokenPointer">>, panic |-> ""]
      [] val_type \in {"String", "Boolean", "Number"} ->
            [res |-> Some(BoxedValue(val_type, ref_val)), errs |-> <<>>, panic |-> ""]
      [] val_type = "Reference" ->
            IF ~Downcasts(ref_val, "Reference")
            THEN [res |-> None, errs |-> <<>>, panic |-> "panic_downcast"]
            ELSE LET is_pointer == StartsWithAmp(ref_val.r)
                     name == IF is_pointer THEN Tail(ref_val.r) ELSE ref_val.r
                     variable == get_variable_by_name(vs, name)
                 IN  IF variable.some
                     THEN IF is_pointer
                          THEN [res |-> Some(Ptr(variable.val.var_id)),
                                errs |-> <<>>, panic |-> ""]
                          ELSE [res |-> Some(BoxedValue(variable.val.val_type,
                                                        variable.val.value)),
                                errs |-> <<>>, panic |-> ""]
                     ELSE [res |-> None, errs |-> <<"VariableNotFound">>, panic |-> ""]
      [] OTHER -> [res |-> None, errs |-> <<>>, panic |-> ""]

-----------------------------------------------------------------------------
(* The native callbacks (stack.rs Stack::new, runtime.rs get_methods_in_type). *)
(* Each yields [res, st, outs, errs, panic].                                   *)

NativeResult(res, st, outs, errs, panic) ==
    [res |-> res, st |-> st, outs |-> outs, errs |-> errs, panic |-> panic]

\* str::replacen("{}", arg, 1)
replacen(template, arg) ==
    LET hits == {i \in 1..(Len(template) - 1) : template[i] = "{" /\ template[i + 1] = "}"}
        i == CHOOSE h \in hits : \A g \in hits : h <= g
    IN  IF hits = {} THEN template
        ELSE SubSeq(template, 1, i - 1) \o arg \o SubSeq(template, i + 2, Len(template))

RECURSIVE format_fold(_, _)
format_fold(template, args) ==
    IF Len(args) = 0 THEN template
    ELSE format_fold(replacen(template, Head(args)), Tail(args))

\* the callback of `format`
cb_format(args, st) ==
    LET strs == values_to_strings(args, st.variables)
    IN  IF strs.panic # "" THEN NativeResult(None, st, <<>>, <<>>, strs.panic)
        ELSE IF Len(strs.strs) = 0 THEN NativeResult(None, st, <<>>, <<>>, "panic_index")
        ELSE NativeResult(Some(Str(format_fold(Head(strs.strs), Tail(strs.strs)))),
                          st, <<>>, <<>>, "")

\* the callback of `print`
cb_print(args, st) ==
    LET strs == values_to_strings(args, st.variables)
    IN  IF strs.panic # "" THEN NativeResult(None, st, <<>>, <<>>, strs.panic)
        ELSE NativeResult(None, st, <<Join(strs.strs, <<" ">>)>>, <<>>, "")

\* the callback of `println`
cb_println(args, st) ==
    LET strs == values_to_strings(args, st.variables)
    IN  IF strs.panic # "" THEN NativeResult(None, st, <<>>, <<>>, strs.panic)
        ELSE NativeResult(None, st, <<Join(strs.strs, <<>>) \o <<"\n">>>>, <<>>, "")

\* str::parse::<u64>().is_ok() on the digits the model uses
IsNumeric(str) ==
    /\ Len(str) > 0
    /\ \A i \in 1..Len(str) : \E d \in 1..10 : Digits[d] = str[i]

\* the callback of `wait`
cb_wait(args, st) ==
    IF Len(args) = 0 THEN NativeResult(None, st, <<>>, <<>>, "panic_index")
    ELSE LET time == value_to_string(args[1], st.variables)
         IN  IF time.tag = "Panic" THEN NativeResult(None, st, <<>>, <<>>, time.why)
             ELSE IF time.tag = "Err" \/ ~IsNumeric(time.s)
             THEN NativeResult(None, st, <<>>, <<>>, "panic_unwrap_err")
             ELSE NativeResult(None, st, <<>>, <<>>, "")

\* the callback of `clear`
cb_clear(args, st) == NativeResult(None, st, <<<<"ESC[2J", "ESC[1;1H">>>>, <<>>, "")

\* what sum and mut_sum compute before they differ: [panic, found, var_name, new_val]
NumberMethodPrologue(args, st) ==
    IF Len(args) = 0 THEN [panic |-> "panic_index"]
    ELSE LET var_name == value_to_string(args[1], st.variables)
         IN  IF var_name.tag = "Panic" THEN [panic |-> var_name.why]
             ELSE IF var_name.tag = "Err" THEN [panic |-> "panic_unwrap_err"]
             ELSE IF Len(args) < 2 THEN [panic |-> "panic_index"]
             ELSE IF ~Downcasts(args[2].value, "Number") THEN [panic |-> "panic_downcast"]
             ELSE LET variable == get_variable_by_name(st.variables, var_name.s)
                  IN  IF ~variable.some
                      THEN [panic |-> "", found |-> FALSE]
                      ELSE IF ~Downcasts(variable.val.value, "Number")
                      THEN [panic |-> "panic_downcast"]
                      ELSE [panic |-> "", found |-> TRUE, var_name |-> var_name.s,
                            new_val |-> variable.val.value.n + args[2].value.n]

\* the callback of Number's `sum`
cb_sum(args, st) ==
    LET pre == NumberMethodPrologue(args, st)
    IN  IF pre.panic # "" THEN NativeResult(None, st, <<>>, <<>>, pre.panic)
        ELSE IF ~pre.found THEN NativeResult(None, st, <<>>, <<>>, "")
        ELSE NativeResult(Some(Num(pre.new_val)), st, <<>>, <<>>, "")

\* a mut_sum that returns the sum and stores nothing
cb_mut_sum_returning(args, st) == cb_sum(args, st)

\* the callback of Number's `mut_sum`
cb_mut_sum(args, st) ==
    LET pre == NumberMethodPrologue(args, st)
    IN  IF pre.panic # "" THEN NativeResult(None, st, <<>>, <<>>, pre.panic)
        ELSE IF ~pre.found THEN NativeResult(None, st, <<>>, <<>>, "")
        ELSE LET m == modify_var(st, pre.var_name, Num(pre.new_val))
             IN  NativeResult(None, m.st, <<>>, m.errs,
                              IF m.panic THEN "panic_downcast" ELSE "")

\* (function.cb)(..) for a native callback
NativeCall(cb, args, st) ==
    CASE cb = "clear" -> cb_clear(args, st)
      [] cb = "format" -> cb_format(args, st)
      [] cb = "print" -> cb_print(args, st)
      [] cb = "println" -> cb_println(args, st)
      [] cb = "wait" -> cb_wait(args, st)
      [] cb = "sum" -> cb_sum(args, st)
      [] cb = "mut_sum" -> cb_mut_sum(args, st)

-----------------------------------------------------------------------------
(* ast_types: the statement and operand nodes *)

Break == [type |-> "Break"]
Module(name, fns) == [type |-> "Module", name |-> name, functions |-> fns]
While(conditions, body) == [type |-> "WhileDef", conditions |-> conditions, body |-> body]
IfConditional(conditions, body) ==
    [type |-> "IfConditional", conditions |-> conditions, body |-> body]
ReturnStatement(value) == [type |-> "Return", value |-> value]
FnDefinition(def_name, body, arguments) ==
    [type |-> "FnDef", def_name |-> def_name, body |-> body, arguments |-> arguments]
VarDefinition(def_name, assignment) ==
    [type |-> "VarDef", def_name |-> def_name, assignment |-> assignment]
VarAssignment(var_name, assignment) ==
    [type |-> "VarAssign", var_name |-> var_name, assignment |-> assignment]
\* reference_to is an Option<String>
FnCall(fn_name, arguments, reference_to) ==
    [type |-> "FnCall", fn_name |-> fn_name, arguments |-> arguments,
     reference_to |-> reference_to]
ResultExpression(relation, left, right) ==
    [relation |-> relation, left |-> left, right |-> right]

\* a call used as an operand, boxed with interface FnCall
FnCallBox(call) == BoxedValue("FnCall", [t |-> "FnCall", call |-> call])
\* a block used as an operand, boxed with interface Expression
ExpressionBox(body, expr_id) ==
    BoxedValue("Expression", [t |-> "Expression", body |-> body, expr_id |-> expr_id])

-----------------------------------------------------------------------------
(* lib.rs: pieces of run_ast and of the user-function callback *)

\* get_function_from_def; id is the Uuid drawn for the FunctionDef
get_function_from_def(function, id) ==
    FunctionDef(function.def_name, function.body, function.arguments, "user", id)

\* run_ast, Ops::Module: the HashMap built from module.functions, the k-th
\* definition taking the (first + k)-th Uuid
RECURSIVE ModuleFunctions(_, _, _)
ModuleFunctions(fns, first, acc) ==
    IF Len(fns) = 0 THEN acc
    ELSE LET function == [Head(fns) EXCEPT !.arguments = <<n_underscore>> \o @]
         IN  ModuleFunctions(Tail(fns), first + 1,
                 HashMapInsert(acc, NameKey(function.def_name),
                               get_function_from_def(function, RunId(first + 1))))

\* the callback of a user function, its loop over args_vals: the stack after the
\* bindings that succeed; args[i] panics when there are more values than names
RECURSIVE BindArguments(_, _, _, _)
BindArguments(st, args, args_vals, expr_id) ==
    IF Len(args_vals) = 0 \/ Len(args) = 0 THEN st
    ELSE LET var_id == reseve_index(st.item_index)
             arg == Head(args_vals)
             var == VariableDef(Head(args), arg.interface, arg.value, expr_id,
                                get_methods_in_type(arg.interface), var_id)
         IN  BindArguments([st EXCEPT !.item_index = var_id,
                                      !.variables = push_variable(@, var)],
                           Tail(args), Tail(args_vals), expr_id)

\* run_ast, eval_condition once both operands are resolved: [res, panic]
eval_condition(relation, left_val, right_val, vs) ==
    IF left_val.some /\ right_val.some
    THEN IF relation \notin {"EqualCondition", "NotEqualCondition"}
         THEN [res |-> FALSE, panic |-> ""]
         ELSE LET l == value_to_string(left_val.val, vs)
                  r == value_to_string(right_val.val, vs)
              IN  IF l.tag = "Panic" THEN [res |-> FALSE, panic |-> l.why]
                  ELSE IF l.tag = "Err" THEN [res |-> FALSE, panic |-> "panic_unwrap_err"]
                  ELSE IF r.tag = "Panic" THEN [res |-> FALSE, panic |-> r.why]
                  ELSE IF r.tag = "Err" THEN [res |-> FALSE, panic |-> "panic_unwrap_err"]
                  ELSE [res |-> IF relation = "NotEqualCondition" THEN l.s # r.s
                                ELSE l.s = r.s,
                        panic |-> ""]
    ELSE [res |-> FALSE, panic |-> ""]

\* the function a call names: [panic, errs, found], found being the definitions
\* the lookup can return (run_ast Ops::FnCall and resolve_reference FN_CALL)
LookupFunction(call, vs, fns) ==
    IF call.reference_to.some
    THEN LET variable == get_variable_by_name(vs, call.reference_to.val)
         IN  IF ~variable.some
             THEN [panic |-> "panic_unwrap_none", errs |-> <<>>, found |-> {}]
             ELSE LET f == VariableFunctionByName(variable.val, call.fn_name)
                  IN  IF f.some THEN [panic |-> "", errs |-> <<>>, found |-> {f.val}]
                      ELSE [panic |-> "", errs |-> <<"FunctionNotFound">>, found |-> {}]
    ELSE LET found == StackFunctionsByName(fns, call.fn_name)
         IN  [panic |-> "", found |-> found,
              errs |-> IF found = {} THEN <<"FunctionNotFound">> ELSE <<>>]

\* the arguments vector before the call's own arguments are resolved
ReceiverArgument(call) ==
    IF call.reference_to.some THEN <<Str(call.reference_to.val)>> ELSE <<>>

\* run_ast Ops::FnCall after the callback returned res_func: [errs, panic]
ReturnedValueCheck(res_func, arguments, vs) ==
    IF ~res_func.some THEN [errs |-> <<>>, panic |-> ""]
    ELSE LET val_stringified == value_to_string(res_func.val, vs)
         IN  IF val_stringified.tag = "Panic" THEN [errs |-> <<>>, panic |-> val_stringified.why]
             ELSE IF val_stringified.tag = "Err" THEN [errs |-> <<>>, panic |-> ""]
             ELSE LET strs == values_to_strings(arguments, vs)
                  IN  IF strs.panic # "" THEN [errs |-> <<>>, panic |-> strs.panic]
                      ELSE [errs |-> <<"ReturnedValueNotUsed">>, panic |-> ""]

\* a sentinel the while driver does not recognise
BreakSentinel_string == BoxedValue("String", StringVal(<<"b", "r", "e", "a", "k">>))

\* the value Ops::Break returns
BreakSentinel == BoxedValue("Break", StringVal(<<"b", "r", "e", "a", "k">>))

-----------------------------------------------------------------------------
(* The evaluator's activations.  frames[1] is the innermost one.            *)

\* a call of run_ast on a block, about to execute body[pc]
RunAstFrame(body, expr_id) == [k |-> "run_ast", body |-> body, pc |-> 1, expr_id |-> expr_id]
\* a call of resolve_reference on the operand op
ResolveFrame(op) == [k |-> "resolve", op |-> op]
\* Ops::VarDef, Ops::VarAssign, Ops::Return waiting for their operand
VarDefFrame(def_name) == [k |-> "VarDef", def_name |-> def_name]
VarAssignFrame(var_name) == [k |-> "VarAssign", var_name |-> var_name]
ReturnFrame == [k |-> "Return"]
\* the condition loop of Ops::IfConditional / check_while: condition i, its side
CondFrame(stmt) ==
    [k |-> "cond", stmt |-> stmt, i |-> 1, side |-> "left", left |-> None, true_count |-> 0]
\* a call collecting its arguments: site is "stmt" (run_ast) or "operand"
CallFrame(site, function, call) ==
    [k |-> "call", site |-> site, function |-> function, call |-> call,
     rest |-> call.arguments, arguments |-> ReceiverArgument(call)]
\* the user-function callback waiting for run_ast on its body
CbFrame(site, expr_id, arguments) ==
    [k |-> "cb", site |-> site, expr_id |-> expr_id, arguments |-> arguments]
\* Ops::IfConditional / check_while waiting for run_ast on the body
IfFrame(expr_id) == [k |-> "if", expr_id |-> expr_id]
WhileFrame(expr_id, stmt) == [k |-> "while", expr_id |-> expr_id, stmt |-> stmt]
\* resolve_reference on an Expression operand waiting for run_ast on it
CarrierFrame(expr_id) == [k |-> "carrier", expr_id |-> expr_id]

-----------------------------------------------------------------------------
(* State helpers *)

StackNow == [variables |-> variables, functions |-> functions, item_index |-> item_index]

SetStack(st) ==
    /\ variables' = st.variables
    /\ functions' = st.functions
    /\ item_index' = st.item_index

Running == status = "running" /\ uuid < MaxUuid /\ frames # <<>>

Top == frames[1]
Rest == Tail(frames)

\* the statement run_ast is about to execute
AtStatement(type) ==
    /\ Running
    /\ mode = "exec"
    /\ Top.k = "run_ast"
    /\ Top.pc <= Len(Top.body)
    /\ Top.body[Top.pc].type = type

Stmt == Top.body[Top.pc]

\* the innermost activation receives ret
Receiving(k) == Running /\ mode = "ret" /\ Top.k = k

\* the for loop of run_ast moves on to the next operation; fs[1] is its frame
Advance(fs) == <<[fs[1] EXCEPT !.pc = @ + 1]>> \o Tail(fs)

\* run_ast returns value to the activation that called it (fs is what is left)
ReturnFromRunAst(fs, value) ==
    /\ frames' = fs
    /\ ret' = value
    /\ mode' = "ret"
    /\ status' = IF fs = <<>> THEN "done" ELSE status

PanicStatuses ==
    {"panic_downcast", "panic_unwrap_none", "panic_unwrap_err", "panic_index",
     "panic_stack_overflow"}

Panicked == status \in PanicStatuses

-----------------------------------------------------------------------------
(* run_ast: one action per arm of the statement dispatch *)

\* Ops::Break
StmtBreak ==
    /\ AtStatement("Break")
    /\ ReturnFromRunAst(Rest, Some(BreakSentinel))
    /\ UNCHANGED <<variables, functions, item_index, uuid, errors, out, prog, lexVars>>

\* Ops::Module
StmtModule ==
    /\ AtStatement("Module")
    /\ LET var_id == reseve_index(item_index)
           fns == ModuleFunctions(Stmt.functions, uuid, {})
       IN  /\ item_index' = var_id
           /\ variables' = push_variable(variables,
                  VariableDef(Stmt.name, "String", StringVal(Stmt.name), Top.expr_id,
                              fns, var_id))
           /\ uuid' = uuid + Len(Stmt.functions)
    /\ frames' = Advance(frames)
    /\ UNCHANGED <<functions, ret, mode, errors, out, status, prog, lexVars>>

\* Ops::FnDef
StmtFnDef ==
    /\ AtStatement("FnDef")
    /\ uuid' = uuid + 1
    /\ functions' = push_function(functions, get_function_from_def(Stmt, RunId(uuid + 1)))
    /\ frames' = Advance(frames)
    /\ UNCHANGED <<variables, item_index, ret, mode, errors, out, status, prog, lexVars>>

\* Ops::VarDef, up to the call of resolve_ref
StmtVarDef ==
    /\ AtStatement("VarDef")
    /\ frames' = <<ResolveFrame(Stmt.assignment), VarDefFrame(Stmt.def_name)>> \o frames
    /\ UNCHANGED <<variables, functions, item_index, uuid, ret, mode, errors, out, status, prog, lexVars>>

\* a VarDef that takes an id whatever resolve_ref returned
VarDefRet_reserving ==
    /\ Receiving("VarDef")
    /\ item_index' = reseve_index(item_index)
    /\ variables' = IF ret.some
                    THEN push_variable(variables,
                             VariableDef(Top.def_name, ret.val.interface, ret.val.value,
                                         frames[2].expr_id,
                                         get_methods_in_type(ret.val.interface),
                                         reseve_index(item_index)))
                    ELSE variables
    /\ frames' = Advance(Rest)
    /\ mode' = "exec"
    /\ UNCHANGED <<functions, uuid, ret, errors, out, status, prog, lexVars>>

\* Ops::VarDef, after resolve_ref returned
VarDefRet ==
    /\ Receiving("VarDef")
    /\ IF ret.some
       THEN LET var_id == reseve_index(item_index)
            IN  /\ item_index' = var_id
                /\ variables' = push_variable(variables,
                       VariableDef(Top.def_name, ret.val.interface, ret.val.value,
                                   frames[2].expr_id,
                                   get_methods_in_type(ret.val.interface), var_id))
       ELSE UNCHANGED <<variables, item_index>>
    /\ frames' = Advance(Rest)
    /\ mode' = "exec"
    /\ UNCHANGED <<functions, uuid, ret, errors, out, status, prog, lexVars>>

\* Ops::VarAssign, up to the call of resolve_ref
StmtVarAssign ==
    /\ AtStatement("VarAssign")
    /\ frames' = <<ResolveFrame(Stmt.assignment), VarAssignFrame(Stmt.var_name)>> \o frames
    /\ UNCHANGED <<variables, functions, item_index, uuid, ret, mode, errors, out, status, prog, lexVars>>

\* Ops::VarAssign, after resolve_ref returned
VarAssignRet ==
    /\ Receiving("VarAssign")
    /\ LET is_pointer == StartsWithAmp(Top.var_name)
           variable_name == IF is_pointer THEN Tail(Top.var_name) ELSE Top.var_name
           m == modify_var(StackNow, variable_name, ret.val)
       IN  IF ~ret.some
           THEN /\ frames' = Advance(Rest)
                /\ mode' = "exec"
                /\ UNCHANGED <<variables, functions, item_index, errors, status>>
           ELSE IF m.panic
           THEN /\ status' = "panic_downcast"
                /\ UNCHANGED <<variables, functions, item_index, errors, frames, mode>>
           ELSE /\ SetStack(m.st)
                /\ errors' = errors \o m.errs
                /\ frames' = Advance(Rest)
                /\ mode' = "exec"
                /\ UNCHANGED status
    /\ UNCHANGED <<uuid, ret, out, prog, lexVars>>

\* Ops::Return, up to the call of resolve_ref
StmtReturn ==
    /\ AtStatement("Return")
    /\ frames' = <<ResolveFrame(Stmt.value), ReturnFrame>> \o frames
    /\ UNCHANGED <<variables, functions, item_index, uuid, ret, mode, errors, out, status, prog, lexVars>>

\* Ops::Return, `return return_val`
ReturnRet ==
    /\ Receiving("Return")
    /\ ReturnFromRunAst(Tail(Rest), ret)
    /\ UNCHANGED <<variables, functions, item_index, uuid, errors, out, prog, lexVars>>

\* Ops::IfConditional, entering the loop over the conditions
StmtIfConditional ==
    /\ AtStatement("IfConditional")
    /\ frames' = <<CondFrame(Stmt)>> \o frames
    /\ UNCHANGED <<variables, functions, item_index, uuid, ret, mode, errors, out, status, prog, lexVars>>

\* Ops::WhileDef, the first call of check_while
StmtWhileDef ==
    /\ AtStatement("WhileDef")
    /\ frames' = <<CondFrame(Stmt)>> \o frames
    /\ UNCHANGED <<variables, functions, item_index, uuid, ret, mode, errors, out, status, prog, lexVars>>

\* the for loop of run_ast ends: `None`
BlockEnd ==
    /\ Running
    /\ mode = "exec"
    /\ Top.k = "run_ast"
    /\ Top.pc > Len(Top.body)
    /\ ReturnFromRunAst(Rest, None)
    /\ UNCHANGED <<variables, functions, item_index, uuid, errors, out, prog, lexVars>>

-----------------------------------------------------------------------------
(* run_ast: conditions, if and while *)

Conditions == Top.stmt.conditions

\* eval_condition resolves the next operand of condition i
CondOperand ==
    /\ Running
    /\ mode = "exec"
    /\ Top.k = "cond"
    /\ Top.i <= Len(Conditions)
    /\ frames' = <<ResolveFrame(IF Top.side = "left" THEN Conditions[Top.i].left
                                ELSE Conditions[Top.i].right)>> \o frames
    /\ UNCHANGED <<variables, functions, item_index, uuid, ret, mode, errors, out, status, prog, lexVars>>

\* eval_condition receives a resolved operand; with both, it compares them
CondRet ==
    /\ Receiving("cond")
    /\ IF Top.side = "left"
       THEN /\ frames' = <<[Top EXCEPT !.side = "right", !.left = ret]>> \o Rest
            /\ mode' = "exec"
            /\ UNCHANGED status
       ELSE LET c == eval_condition(Conditions[Top.i].relation, Top.left, ret, variables)
            IN  IF c.panic # ""
                THEN /\ status' = c.panic
                     /\ UNCHANGED <<frames, mode>>
                ELSE /\ frames' = <<[Top EXCEPT !.i = @ + 1, !.side = "left", !.left = None,
                                                !.true_count = @ + (IF c.res THEN 1 ELSE 0)]>>
                                  \o Rest
                     /\ mode' = "exec"
                     /\ UNCHANGED status
    /\ UNCHANGED <<variables, functions, item_index, uuid, ret, errors, out, prog, lexVars>>

\* the body entered as soon as one condition held
CondEnterBody_any ==
    /\ Running
    /\ mode = "exec"
    /\ Top.k = "cond"
    /\ Top.i > Len(Conditions)
    /\ Top.true_count >= 1
    /\ uuid' = uuid + 1
    /\ LET expr_id == RunId(uuid + 1)
       IN  frames' = <<RunAstFrame(Top.stmt.body, expr_id),
                       IF Top.stmt.type = "WhileDef" THEN WhileFrame(expr_id, Top.stmt)
                       ELSE IfFrame(expr_id)>> \o Rest
    /\ UNCHANGED <<variables, functions, item_index, ret, mode, errors, out, status, prog, lexVars>>

\* every condition held: Expression::from_body and run_ast on the body
CondEnterBody ==
    /\ Running
    /\ mode = "exec"
    /\ Top.k = "cond"
    /\ Top.i > Len(Conditions)
    /\ Top.true_count = Len(Conditions)
    /\ uuid' = uuid + 1
    /\ LET expr_id == RunId(uuid + 1)
       IN  frames' = <<RunAstFrame(Top.stmt.body, expr_id),
                       IF Top.stmt.type = "WhileDef" THEN WhileFrame(expr_id, Top.stmt)
                       ELSE IfFrame(expr_id)>> \o Rest
    /\ UNCHANGED <<variables, functions, item_index, ret, mode, errors, out, status, prog, lexVars>>

\* some condition failed: the if is skipped, check_while returns None and the
\* while loop stops
CondSkipBody ==
    /\ Running
    /\ mode = "exec"
    /\ Top.k = "cond"
    /\ Top.i > Len(Conditions)
    /\ Top.true_count # Len(Conditions)
    /\ frames' = Advance(Rest)
    /\ UNCHANGED <<variables, functions, item_index, uuid, ret, mode, errors, out, status, prog, lexVars>>

\* Ops::IfConditional after run_ast on the body returned
IfRet ==
    /\ Receiving("if")
    /\ IF ret.some
       THEN /\ ReturnFromRunAst(Tail(Rest), ret)
            /\ UNCHANGED <<variables, functions, item_index>>
       ELSE /\ SetStack(drop_ops_from_id(StackNow, Top.expr_id))
            /\ frames' = Advance(Rest)
            /\ mode' = "exec"
            /\ UNCHANGED <<ret, status>>
    /\ UNCHANGED <<uuid, errors, out, prog, lexVars>>

\* check_while after run_ast on the body returned, and the loop driver
WhileRet ==
    /\ Receiving("while")
    /\ IF ret.some
       THEN /\ UNCHANGED <<variables, functions, item_index>>
            /\ CASE ret.val.interface = "WhileDef" ->
                        /\ frames' = <<CondFrame(Top.stmt)>> \o Rest
                        /\ mode' = "exec"
                        /\ UNCHANGED <<ret, status>>
                 [] ret.val.interface = "Break" ->
                        /\ frames' = Advance(Rest)
                        /\ mode' = "exec"
                        /\ UNCHANGED <<ret, status>>
                 [] OTHER -> ReturnFromRunAst(Tail(Rest), ret)
       ELSE /\ SetStack(drop_ops_from_id(StackNow, Top.expr_id))
            /\ frames' = <<CondFrame(Top.stmt)>> \o Rest
            /\ mode' = "exec"
            /\ UNCHANGED <<ret, status>>
    /\ UNCHANGED <<uuid, errors, out, prog, lexVars>>

-----------------------------------------------------------------------------
(* resolve_reference *)

\* the arms that return at once
ResolveValue ==
    /\ Running
    /\ mode = "exec"
    /\ Top.k = "resolve"
    /\ Top.op.interface \notin {"FnCall", "Expression"}
    /\ LET r == resolve_reference(variables, Top.op.interface, Top.op.value)
       IN  IF r.panic # ""
           THEN /\ status' = r.panic
                /\ UNCHANGED <<frames, ret, mode, errors>>
           ELSE /\ frames' = Rest
                /\ ret' = r.res
                /\ mode' = "ret"
                /\ errors' = errors \o r.errs
                /\ UNCHANGED status
    /\ UNCHANGED <<variables, functions, item_index, uuid, out, prog, lexVars>>

\* the function lookup shared by run_ast Ops::FnCall and resolve_reference FN_CALL:
\* on a miss the caller goes on with the frames missed in mode missed_mode, on a
\* hit the call collects its arguments on top of below
LookupAndCall(call, site, below, missed, missed_mode) ==
    LET l == LookupFunction(call, variables, functions)
    IN  IF l.panic # ""
        THEN /\ status' = l.panic
             /\ UNCHANGED <<frames, errors, ret, mode>>
        ELSE IF l.found = {}
        THEN /\ frames' = missed
             /\ errors' = errors \o l.errs
             /\ ret' = None
             /\ mode' = missed_mode
             /\ UNCHANGED status
        ELSE /\ \E function \in l.found :
                    frames' = <<CallFrame(site, function, call)>> \o below
             /\ mode' = "exec"
             /\ UNCHANGED <<errors, ret, status>>

\* op_codes::FN_CALL, up to the first argument
ResolveFnCall ==
    /\ Running
    /\ mode = "exec"
    /\ Top.k = "resolve"
    /\ Top.op.interface = "FnCall"
    /\ LookupAndCall(Top.op.value.call, "operand", Rest, Rest, "ret")
    /\ UNCHANGED <<variables, functions, item_index, uuid, out, prog, lexVars>>

\* an Expression operand: run_ast on the block
ResolveExpression ==
    /\ Running
    /\ mode = "exec"
    /\ Top.k = "resolve"
    /\ Top.op.interface = "Expression"
    /\ frames' = <<RunAstFrame(Top.op.value.body, Top.op.value.expr_id),
                   CarrierFrame(Top.op.value.expr_id)>> \o Rest
    /\ UNCHANGED <<variables, functions, item_index, uuid, ret, mode, errors, out, status, prog, lexVars>>

\* an Expression operand: the block's scope is dropped, its value returned
CarrierRet ==
    /\ Receiving("carrier")
    /\ SetStack(drop_ops_from_id(StackNow, Top.expr_id))
    /\ frames' = Rest
    /\ UNCHANGED <<uuid, ret, mode, errors, out, status, prog, lexVars>>

-----------------------------------------------------------------------------
(* Calls: run_ast Ops::FnCall and resolve_reference FN_CALL *)

\* Ops::FnCall, up to the first argument
StmtFnCall ==
    /\ AtStatement("FnCall")
    /\ LookupAndCall(Stmt, "stmt", frames, Advance(frames), "exec")
    /\ UNCHANGED <<variables, functions, item_index, uuid, out, prog, lexVars>>

\* the loop over fn_call.arguments resolves the next argument
CallArg ==
    /\ Running
    /\ mode = "exec"
    /\ Top.k = "call"
    /\ Top.rest # <<>>
    /\ frames' = <<ResolveFrame(Head(Top.rest)), [Top EXCEPT !.rest = Tail(@)]>> \o Rest
    /\ UNCHANGED <<variables, functions, item_index, uuid, ret, mode, errors, out, status, prog, lexVars>>

\* the loop over fn_call.arguments keeps a resolved argument, skips a broken one
CallArgRet ==
    /\ Receiving("call")
    /\ frames' = <<[Top EXCEPT !.arguments = IF ret.some THEN Append(@, ret.val) ELSE @]>>
                 \o Rest
    /\ mode' = "exec"
    /\ UNCHANGED <<variables, functions, item_index, uuid, ret, errors, out, status, prog, lexVars>>

\* what follows (function.cb)(..) at a call site: in run_ast the advisory
\* diagnostic and the next statement, in resolve_reference the return of res
AfterCall(site, res, arguments, vs, below, errs) ==
    IF site = "stmt"
    THEN LET c == ReturnedValueCheck(res, arguments, vs)
         IN  IF c.panic # ""
             THEN /\ status' = c.panic
                  /\ frames' = below
                  /\ errors' = errors \o errs
                  /\ UNCHANGED <<ret, mode>>
             ELSE /\ frames' = Advance(below)
                  /\ errors' = errors \o errs \o c.errs
                  /\ mode' = "exec"
                  /\ UNCHANGED <<ret, status>>
    ELSE /\ frames' = below
         /\ ret' = res
         /\ mode' = "ret"
         /\ errors' = errors \o errs
         /\ UNCHANGED status

\* (function.cb)(..) of a native callback
CallNative ==
    /\ Running
    /\ mode = "exec"
    /\ Top.k = "call"
    /\ Top.rest = <<>>
    /\ Top.function.cb # "user"
    /\ LET r == NativeCall(Top.function.cb, Top.arguments, StackNow)
       IN  IF r.panic # ""
           THEN /\ status' = r.panic
                /\ UNCHANGED <<variables, functions, item_index, frames, ret, mode, errors, out>>
           ELSE /\ SetStack(r.st)
                /\ out' = out \o r.outs
                /\ AfterCall(Top.site, r.res, Top.arguments, r.st.variables, Rest, r.errs)
    /\ UNCHANGED <<uuid, prog, lexVars>>

\* (function.cb)(..) of a user function, up to run_ast on the body
CallUser ==
    /\ Running
    /\ mode = "exec"
    /\ Top.k = "call"
    /\ Top.rest = <<>>
    /\ Top.function.cb = "user"
    /\ uuid' = uuid + 1
    /\ LET expr_id == RunId(uuid + 1)
       IN  /\ SetStack(BindArguments(StackNow, Top.function.arguments, Top.arguments, expr_id))
           /\ IF Len(Top.arguments) > Len(Top.function.arguments)
              THEN /\ status' = "panic_index"
                   /\ UNCHANGED frames
              ELSE /\ frames' = <<RunAstFrame(Top.function.body, expr_id),
                                  CbFrame(Top.site, expr_id, Top.arguments)>> \o Rest
                   /\ UNCHANGED status
    /\ UNCHANGED <<ret, mode, errors, out, prog, lexVars>>

\* a callback that hands back what run_ast returned, as it is
CbRet_unresolved ==
    /\ Receiving("cb")
    /\ LET st == drop_ops_from_id(StackNow, Top.expr_id)
       IN  /\ SetStack(st)
           /\ AfterCall(Top.site, ret, Top.arguments, st.variables, Rest, <<>>)
    /\ UNCHANGED <<uuid, out, prog, lexVars>>

\* the callback of a user function after run_ast on the body returned
CbRet ==
    /\ Receiving("cb")
    /\ LET st == drop_ops_from_id(StackNow, Top.expr_id)
           r == IF ret.some
                THEN resolve_reference(st.variables, ret.val.interface, ret.val.value)
                ELSE [res |-> None, errs |-> <<>>, panic |-> ""]
       IN  /\ SetStack(st)
           /\ IF r.panic # ""
              THEN /\ status' = r.panic
                   /\ UNCHANGED <<frames, ret, mode, errors>>
              ELSE AfterCall(Top.site, r.res, Top.arguments, st.variables, Rest, r.errs)
    /\ UNCHANGED <<uuid, out, prog, lexVars>>

\* the model stops a run that has drawn MaxUuid scope ids
Halt ==
    /\ status = "running"
    /\ uuid >= MaxUuid
    /\ status' = "halted"
    /\ UNCHANGED <<variables, functions, item_index, uuid, frames, ret, mode, errors, out, prog, lexVars>>

-----------------------------------------------------------------------------
(* lib.rs: the lexer's keyword table and the parser pieces that decide what *)
(* a function definition and an import hand to the evaluator                *)

w_fn == <<"f", "n">>
w_open_parent == <<"(">>
w_close_parent == <<")">>
w_comma == <<",">>

\* transform_into_tokens: the kind of a word
TokenType(word) ==
    CASE word = <<"l", "e", "t">> -> "VarDef"
      [] word = <<"=">> -> "LeftAssign"
      [] word = w_open_parent -> "OpenParent"
      [] word = w_close_parent -> "CloseParent"
      [] word = w_fn -> "FnDef"
      [] word = <<"{">> -> "OpenBlock"
      [] word = <<"}">> -> "CloseBlock"
      [] word = <<"i", "f">> -> "IfConditional"
      [] word = <<"=", "=">> -> "EqualCondition"
      [] word = <<"r", "e", "t", "u", "r", "n">> -> "Return"
      [] word = <<".">> -> "PropAccess"
      [] word = w_comma -> "CommaDelimiter"
      [] word = <<"w", "h", "i", "l", "e">> -> "WhileDef"
      [] word = <<"!", "=">> -> "NotEqualCondition"
      [] word = <<"i", "m", "p", "o", "r", "t">> -> "Import"
      [] word = <<"f", "r", "o", "m">> -> "FromModule"
      [] word = <<"b", "r", "e", "a", "k">> -> "Break"
      [] OTHER -> "Reference"

\* Token::new
Token(ast_type, value, line) == [ast_type |-> ast_type, value |-> value, line |-> line]

\* \s of the regex, char::is_whitespace of str::trim
IsWhitespace(c) == c \in {" ", "\t", "\n", "\r"}

\* str::trim_start
RECURSIVE trim_start(_)
trim_start(text) ==
    IF text # <<>> /\ IsWhitespace(Head(text)) THEN trim_start(Tail(text)) ELSE text

\* str::trim_end
RECURSIVE trim_end(_)
trim_end(text) ==
    IF text # <<>> /\ IsWhitespace(text[Len(text)])
    THEN trim_end(SubSeq(text, 1, Len(text) - 1))
    ELSE text

\* str::trim
trim(text) == trim_end(trim_start(text))

\* str::starts_with
starts_with(text, prefix) ==
    Len(text) >= Len(prefix) /\ SubSeq(text, 1, Len(prefix)) = prefix

\* code.split('\n')
RECURSIVE split_newline(_)
split_newline(text) ==
    LET breaks == {i \in 1..Len(text) : text[i] = "\n"}
        i == CHOOSE b \in breaks : \A c \in breaks : b <= c
    IN  IF breaks = {} THEN <<text>>
        ELSE <<SubSeq(text, 1, i - 1)>> \o split_newline(SubSeq(text, i + 1, Len(text)))

\* the regex without its alternative for parentheses
regex_match_len_no_parent(text, at) ==
    LET c == text[at]
        closing == {j \in (at + 1)..Len(text) : text[j] = "\""}
    IN  IF IsWhitespace(c) \/ c \in {"+", ",", ".", ":"} THEN 1
        ELSE IF c = "\"" /\ closing # {}
             THEN (CHOOSE j \in closing : \A k \in closing : j <= k) - at + 1
        ELSE 0

\* the regex ([\s+,.:])|("(.*?)")|([()]) tried at the 1-based position at:
\* the length of its match there, 0 when it does not match there
regex_match_len(text, at) ==
    LET c == text[at]
        closing == {j \in (at + 1)..Len(text) :
                       /\ text[j] = "\""
                       /\ \A k \in (at + 1)..(j - 1) : text[k] # "\n"}
    IN  IF IsWhitespace(c) \/ c \in {"+", ",", ".", ":"} THEN 1
        ELSE IF c = "\"" /\ closing # {}
             THEN (CHOOSE j \in closing : \A k \in closing : j <= k) - at + 1
        ELSE IF c \in {"(", ")"} THEN 1
        ELSE 0

\* split: the matches of the regex and the text between them, in order;
\* index and last are the 0-based offsets of the source
RECURSIVE split_rec(_, _, _, _)
split_rec(text, index, last, result) ==
    IF index >= Len(text)
    THEN IF last < Len(text) THEN Append(result, SubSeq(text, last + 1, Len(text))) ELSE result
    ELSE LET matched_len == regex_match_len(text, index + 1)
         IN  IF matched_len = 0 THEN split_rec(text, index + 1, last, result)
             ELSE split_rec(text, index + matched_len, index + matched_len,
                      (IF last # index THEN Append(result, SubSeq(text, last + 1, index))
                       ELSE result)
                      \o <<SubSeq(text, index + 1, index + matched_len)>>)

split(text) == split_rec(text, 0, 0, <<>>)

\* get_lines, the words of one line
line_ast(line) ==
    LET found == split(line)
        trimmed == [i \in 1..Len(found) |-> trim(found[i])]
    IN  SelectSeq(trimmed, LAMBDA word : word # <<>>)

\* get_lines: lines starting with // are skipped, every other line gives its words
RECURSIVE get_lines_rec(_, _)
get_lines_rec(raw_lines, lines_list) ==
    IF raw_lines = <<>> THEN lines_list
    ELSE IF starts_with(Head(raw_lines), <<"/", "/">>)
         THEN get_lines_rec(Tail(raw_lines), lines_list)
         ELSE get_lines_rec(Tail(raw_lines), Append(lines_list, line_ast(Head(raw_lines))))

get_lines(text) == get_lines_rec(split_newline(text), <<>>)

\* transform_into_tokens; i is the 0-based index of lines.iter().enumerate()
RECURSIVE transform_into_tokens_rec(_, _, _)
transform_into_tokens_rec(lines_list, i, tokens) ==
    IF i >= Len(lines_list) THEN tokens
    ELSE LET line == lines_list[i + 1]
         IN  transform_into_tokens_rec(lines_list, i + 1,
                 tokens \o [k \in 1..Len(line) |-> Token(TokenType(line[k]), line[k], i + 1)])

transform_into_tokens(lines_list) == transform_into_tokens_rec(lines_list, 0, <<>>)

get_tokens(text) == transform_into_tokens(get_lines(text))

\* get_tokens_in_group_of; from is the 0-based index of the opening token
RECURSIVE get_tokens_in_group_of_rec(_, _, _, _, _, _, _)
get_tokens_in_group_of_rec(tokens, from, open_tok, close_tok, token_n, count, found) ==
    IF token_n >= Len(tokens) THEN found
    ELSE LET token == tokens[token_n + 1]
             c == IF token.ast_type = open_tok THEN count + 1
                  ELSE IF token.ast_type = close_tok THEN count - 1
                  ELSE count
         IN  IF c = 0 THEN found
             ELSE get_tokens_in_group_of_rec(tokens, from, open_tok, close_tok, token_n + 1, c,
                      IF token_n > from THEN Append(found, token) ELSE found)

get_tokens_in_group_of(tokens, from, open_tok, close_tok) ==
    get_tokens_in_group_of_rec(tokens, from, open_tok, close_tok, from, 0, <<>>)

\* move_tokens_into_ast, Ops::FnDef: the argument names of the definition whose
\* `fn` token is at the 0-based index token_n
fn_def_arguments(tokens, token_n) ==
    LET group == get_tokens_in_group_of(tokens, token_n + 2, "OpenParent", "CloseParent")
    IN  [i \in 1..Len(group) |-> group[i].value]

\* the words get_lines yields for `fn name(p1, .., pn)`: the regex keeps `(`, `)`
\* and `,` as words of their own
RECURSIVE ParameterWords(_)
ParameterWords(params) ==
    IF Len(params) = 0 THEN <<>>
    ELSE IF Len(params) = 1 THEN <<params[1]>>
    ELSE <<params[1], w_comma>> \o ParameterWords(Tail(params))

FnHeaderTokens(name, params) ==
    LET words == <<w_fn, name, w_open_parent>> \o ParameterWords(params) \o <<w_close_parent>>
    IN  [i \in 1..Len(words) |-> Token(TokenType(words[i]), words[i], 1)]

\* the FnDefinition move_tokens_into_ast builds for `fn name(params) { body }`
ParsedFnDefinition(name, params, body) ==
    FnDefinition(name, body, fn_def_arguments(FnHeaderTokens(name, params), 0))

\* move_tokens_into_ast, Ops::Import: the Module built from the imported block
ImportedModule(module_name, imported_body) ==
    Module(module_name, SelectSeq(imported_body, LAMBDA op : op.type = "FnDef"))

-----------------------------------------------------------------------------
(* ast_types.rs and lib.rs: the parser.  A token list is a sequence, the      *)
(* cursor token_n counts from 0 as in the source, so the token under the     *)
(* cursor is tokens[token_n + 1].                                            *)

\* what a parser step hands back when an index is out of range
IndexPanic == "panic_index"

\* val.parse::<usize>().is_ok(): decimal digits, a leading + allowed
UnsignedDigits(val) == IF Len(val) > 0 /\ val[1] = "+" THEN Tail(val) ELSE val
IsUsize(val) ==
    /\ Len(UnsignedDigits(val)) > 0
    /\ \A i \in 1..Len(UnsignedDigits(val)) :
          \E d \in 1..Len(Digits) : Digits[d] = UnsignedDigits(val)[i]

\* val.parse::<usize>().unwrap()
RECURSIVE DigitsValue(_)
DigitsValue(ds) ==
    IF ds = <<>> THEN 0
    ELSE DigitsValue(SubSeq(ds, 1, Len(ds) - 1)) * 10
         + ((CHOOSE d \in 1..Len(Digits) : Digits[d] = ds[Len(ds)]) - 1)
ParseUsize(val) == DigitsValue(UnsignedDigits(val))

\* get_tokens_from_to_fn: the tokens from `from` up to the first token of kind
\* `to` (LeftToRight), or the tokens before `from` back to the last token of
\* kind `to` (RightToLeft), in source order
get_tokens_from_to_fn(from, to, tokens, direction) ==
    IF direction = "LeftToRight"
    THEN LET stops == {n \in from..(Len(tokens) - 1) : tokens[n + 1].ast_type = to}
             end == IF stops = {} THEN Len(tokens)
                    ELSE CHOOSE n \in stops : \A m \in stops : n <= m
         IN  SubSeq(tokens, from + 1, end)
    ELSE LET stops == {n \in 0..(from - 1) : tokens[n + 1].ast_type = to}
             start == IF stops = {} THEN 0
                      ELSE (CHOOSE n \in stops : \A m \in stops : n >= m) + 1
         IN  SubSeq(tokens, start + 1, from)

\* `let x = value; rest`: rest applied to the value
Then(value, rest(_)) == rest(value)

\* the (usize, BoxedValue) of get_assignment_token_fn, or its panic
Assigned(size, val) == [size |-> size, val |-> val, panic |-> FALSE]
AssignPanic == [size |-> 0, val |-> None, panic |-> TRUE]

RECURSIVE get_assignment_token_fn(_, _, _, _)
RECURSIVE convert_tokens_into_arguments_rec(_, _, _)

\* convert_tokens_into_arguments: [args, panic]
convert_tokens_into_arguments(tokens) == convert_tokens_into_arguments_rec(tokens, 0, <<>>)

\* the FnCall arm of get_assignment_token_fn: a call used as an operand becomes
\* the block { let _ = call  return _ } (or return <what follows the dot>).
\* The block's expr_id is a fresh Uuid; the model writes the cursor in its place.
CallAsOperand(val, token_n, tokens, direction) ==
    Then(get_tokens_from_to_fn(IF direction = "LeftToRight" THEN token_n + 2 ELSE token_n,
             IF direction = "LeftToRight" THEN "CloseParent" ELSE "IfConditional",
             tokens, direction),
         LAMBDA found :
    LET ltr == direction = "LeftToRight"
        arguments_tokens == IF ltr THEN found ELSE Tail(found)
        previous_is_dot == token_n > 0 /\ tokens[token_n].ast_type = "PropAccess"
        reference_to ==
            IF ~previous_is_dot THEN None
            ELSE IF tokens[token_n - 1].ast_type = "Reference"
            THEN Some(tokens[token_n - 1].value)
            ELSE IF tokens[token_n - 1].ast_type = "CloseParent" THEN Some(n_underscore)
            ELSE None
        left_length == Len(arguments_tokens) + 3
        next_token_n == token_n + left_length
        chained == /\ next_token_n < Len(tokens) - 1
                   /\ tokens[next_token_n + 1].ast_type = "PropAccess"
    IN  IF ~ltr /\ found = <<>> THEN AssignPanic
        ELSE IF previous_is_dot /\ token_n < 2 THEN AssignPanic
        ELSE Then(convert_tokens_into_arguments(arguments_tokens), LAMBDA arguments :
             IF arguments.panic THEN AssignPanic
             ELSE LET call == FnCall(IF ltr THEN val ELSE found[1].value,
                                     arguments.args, reference_to)
                      let_call == VarDefinition(n_underscore, FnCallBox(call))
                  IN  IF chained
                      THEN Then(get_assignment_token_fn(tokens[next_token_n + 2].value,
                                    next_token_n + 1, tokens, "LeftToRight"),
                                LAMBDA after_dot :
                           IF after_dot.panic THEN AssignPanic
                           ELSE Assigned(left_length + after_dot.size,
                                    ExpressionBox(<<let_call,
                                                    ReturnStatement(after_dot.val)>>,
                                                  ParseId(token_n))))
                      ELSE Assigned(left_length,
                               ExpressionBox(<<let_call,
                                               ReturnStatement(Ref(n_underscore))>>,
                                             ParseId(token_n)))))

\* get_assignment_token_fn(val, token_n, tokens, direction)
get_assignment_token_fn(val, token_n, tokens, direction) ==
    IF val = <<"t", "r", "u", "e">> THEN Assigned(1, Bool(TRUE))
    ELSE IF val = <<"f", "a", "l", "s", "e">> THEN Assigned(1, Bool(FALSE))
    ELSE IF IsUsize(val) THEN Assigned(1, Num(ParseUsize(val)))
    ELSE IF Len(val) > 0 /\ val[1] = "\"" /\ val[Len(val)] = "\""
    THEN Assigned(1, Str(SelectSeq(val, LAMBDA c : c # "\"")))
    ELSE IF token_n < Len(tokens) - 1
    THEN IF direction = "RightToLeft" /\ token_n = 0 THEN AssignPanic
         ELSE LET next_token == IF direction = "LeftToRight" THEN tokens[token_n + 2]
                                ELSE tokens[token_n]
              IN  IF next_token.ast_type \in {"OpenParent", "CloseParent"}
                  THEN CallAsOperand(val, token_n, tokens, direction)
                  ELSE IF next_token.ast_type = "PropAccess"
                  THEN IF token_n + 2 >= Len(tokens) THEN AssignPanic
                       ELSE Then(get_assignment_token_fn(tokens[token_n + 3].value,
                                     token_n + 2, tokens, "LeftToRight"),
                                 LAMBDA after :
                                    IF after.panic THEN AssignPanic
                                    ELSE Assigned(after.size + 2, after.val))
                  ELSE Assigned(1, Ref(val))
    ELSE Assigned(1, Ref(val))

convert_tokens_into_arguments_rec(tokens, token_n, args) ==
    IF token_n >= Len(tokens) THEN [args |-> args, panic |-> FALSE]
    ELSE LET token == tokens[token_n + 1]
         IN  IF token.ast_type \in {"OpenParent", "CloseParent", "CommaDelimiter"}
             THEN convert_tokens_into_arguments_rec(tokens, token_n + 1, args)
             ELSE Then(get_assignment_token_fn(token.value, token_n, tokens, "LeftToRight"),
                       LAMBDA a :
                          IF a.panic THEN [args |-> args, panic |-> TRUE]
                          ELSE convert_tokens_into_arguments_rec(tokens, token_n + a.size + 1,
                                                                 Append(args, a.val)))

\* convert_tokens_into_res_expressions: [exprs, panic]
RECURSIVE convert_tokens_into_res_expressions_rec(_, _, _)
convert_tokens_into_res_expressions_rec(tokens, token_n, exprs) ==
    IF token_n >= Len(tokens) THEN [exprs |-> exprs, panic |-> FALSE]
    ELSE LET token == tokens[token_n + 1]
         IN  IF token.ast_type \in {"EqualCondition", "NotEqualCondition"}
             THEN IF token_n + 1 >= Len(tokens) THEN [exprs |-> exprs, panic |-> TRUE]
                  ELSE Then(get_assignment_token_fn(tokens[token_n].value, token_n,
                                tokens, "RightToLeft"), LAMBDA left :
                       Then(get_assignment_token_fn(tokens[token_n + 2].value,
                                token_n + 1, tokens, "LeftToRight"), LAMBDA right :
                       IF left.panic \/ right.panic THEN [exprs |-> exprs, panic |-> TRUE]
                       ELSE convert_tokens_into_res_expressions_rec(tokens, token_n + 2,
                                Append(exprs, ResultExpression(token.ast_type, left.val,
                                                               right.val)))))
             ELSE convert_tokens_into_res_expressions_rec(tokens, token_n + 1, exprs)

convert_tokens_into_res_expressions(tokens) ==
    convert_tokens_into_res_expressions_rec(tokens, 1, <<>>)

-----------------------------------------------------------------------------
(* lib.rs move_tokens_into_ast: one operator per arm of the dispatch.  An arm *)
(* yields [token_n, nodes, errs, status]: the cursor after it, the nodes it   *)
(* pushed, the diagnostics it raised, and "" or what stopped the parser.      *)

Stepped(token_n, nodes, errs) ==
    [token_n |-> token_n, nodes |-> nodes, errs |-> errs, status |-> ""]
Stopped(token_n, errs, why) ==
    [token_n |-> token_n, nodes |-> <<>>, errs |-> errs, status |-> why]

\* a list of words as the lexer's tokens on line 1
Words(ws) == [i \in 1..Len(ws) |-> Token(TokenType(ws[i]), ws[i], 1)]

\* the content fs::read_to_string finds for an imported path:
\* fn g ( ) { } x = 1
ImportedTokens ==
    Words(<<w_fn, <<"g">>, w_open_parent, w_close_parent, <<"{">>, <<"}">>,
            <<"x">>, <<"=">>, <<"1">>>>)

RECURSIVE move_tokens_into_ast_rec(_, _, _, _, _)

\* move_tokens_into_ast on a token list, found telling whether the loader
\* finds imported files: [body, errs, status]
move_tokens_into_ast(tokens, found) == move_tokens_into_ast_rec(tokens, 0, <<>>, <<>>, found)

\* Ops::Break
BreakArm(tokens, token_n) == Stepped(token_n + 1, <<Break>>, <<>>)

\* an import arm that pushes an empty module when the file is missing
ImportArm_empty_module(tokens, token_n, found) ==
    IF token_n + 3 >= Len(tokens) THEN Stopped(token_n, <<>>, IndexPanic)
    ELSE Stepped(token_n + 4, <<Module(tokens[token_n + 2].value, <<>>)>>,
                 <<"ModuleNotFound">>)

\* Ops::Import
ImportArm(tokens, token_n, found) ==
    IF token_n + 3 >= Len(tokens) THEN Stopped(token_n, <<>>, IndexPanic)
    ELSE LET module_name == tokens[token_n + 2].value
             module_direction == tokens[token_n + 3]
             keyword == IF module_direction.ast_type # "FromModule"
                        THEN <<"UnexpectedKeyword">> ELSE <<>>
         IN  IF ~found THEN Stepped(token_n + 4, <<>>, keyword \o <<"ModuleNotFound">>)
             ELSE Then(move_tokens_into_ast(ImportedTokens, found), LAMBDA scope_tree :
                  IF scope_tree.status # ""
                  THEN Stopped(token_n, keyword \o scope_tree.errs, scope_tree.status)
                  ELSE Stepped(token_n + 4,
                               <<ImportedModule(module_name, scope_tree.body)>>,
                               keyword \o scope_tree.errs))

\* Ops::WhileDef and Ops::IfConditional
BlockArm(tokens, token_n, found) ==
    Then(get_tokens_from_to_fn(token_n + 1, "OpenBlock", tokens, "LeftToRight"),
         LAMBDA condition_tokens :
    Then(convert_tokens_into_res_expressions(condition_tokens), LAMBDA exprs :
    Then(get_tokens_in_group_of(tokens, token_n + Len(condition_tokens) + 1,
                                "OpenBlock", "CloseBlock"),
         LAMBDA block_tokens :
    Then(move_tokens_into_ast(block_tokens, found), LAMBDA scope_tree :
    LET open_block_index == token_n + Len(condition_tokens) + 1
    IN  IF exprs.panic THEN Stopped(token_n, <<>>, IndexPanic)
        ELSE IF scope_tree.status # "" THEN Stopped(token_n, scope_tree.errs, scope_tree.status)
        ELSE Stepped(Len(block_tokens) + open_block_index + 1,
                     <<IF tokens[token_n + 1].ast_type = "WhileDef"
                       THEN While(exprs.exprs, scope_tree.body)
                       ELSE IfConditional(exprs.exprs, scope_tree.body)>>,
                     scope_tree.errs)))))

\* Ops::Return
ReturnArm(tokens, token_n) ==
    IF token_n + 1 >= Len(tokens) THEN Stopped(token_n, <<>>, IndexPanic)
    ELSE Then(get_assignment_token_fn(tokens[token_n + 2].value, token_n + 1, tokens,
                                      "LeftToRight"),
              LAMBDA a :
                 IF a.panic THEN Stopped(token_n, <<>>, IndexPanic)
                 ELSE Stepped(token_n + 2 + a.size, <<ReturnStatement(a.val)>>, <<>>))

\* Ops::PropAccess
PropAccessArm(tokens, token_n) ==
    IF token_n = 0 \/ token_n + 1 >= Len(tokens) THEN Stopped(token_n, <<>>, IndexPanic)
    ELSE LET previous_token == tokens[token_n]
             next_token == tokens[token_n + 2]
         IN  IF next_token.ast_type # "Reference"
             THEN Stopped(token_n, <<>>, "loops_forever")
             ELSE IF token_n + 2 >= Len(tokens) THEN Stopped(token_n, <<>>, IndexPanic)
             ELSE IF tokens[token_n + 3].ast_type # "OpenParent"
             THEN Stopped(token_n, <<>>, "loops_forever")
             ELSE Then(get_tokens_in_group_of(tokens, token_n + 2,
                                              "OpenParent", "CloseParent"),
                       LAMBDA arguments_tokens :
                  Then(convert_tokens_into_arguments(arguments_tokens), LAMBDA arguments :
                  IF arguments.panic THEN Stopped(token_n, <<>>, IndexPanic)
                  ELSE Stepped(token_n + 2 + Len(arguments_tokens),
                               <<FnCall(next_token.value, arguments.args,
                                        Some(previous_token.value))>>,
                               <<>>)))

\* Ops::FnDef
FnDefArm(tokens, token_n, found) ==
    IF token_n + 1 >= Len(tokens) THEN Stopped(token_n, <<>>, IndexPanic)
    ELSE Then(fn_def_arguments(tokens, token_n), LAMBDA arguments :
         Then(get_tokens_in_group_of(tokens, token_n + 2 + Len(arguments) + 2,
                                     "OpenBlock", "CloseBlock"),
              LAMBDA block_tokens :
         Then(move_tokens_into_ast(block_tokens, found), LAMBDA scope_tree :
         LET def_name == tokens[token_n + 2].value
             open_block_index == token_n + 2 + Len(arguments) + 2
         IN  IF scope_tree.status # ""
             THEN Stopped(token_n, scope_tree.errs, scope_tree.status)
             ELSE Stepped(Len(block_tokens) + open_block_index + 1,
                          <<FnDefinition(def_name, scope_tree.body, arguments)>>,
                          scope_tree.errs))))

\* Ops::VarDef
VarDefArm(tokens, token_n) ==
    IF token_n + 3 >= Len(tokens) THEN Stopped(token_n, <<>>, IndexPanic)
    ELSE Then(get_assignment_token_fn(tokens[token_n + 4].value, token_n + 3, tokens,
                                      "LeftToRight"),
              LAMBDA a :
                 LET def_name == tokens[token_n + 2].value
                 IN  IF a.panic THEN Stopped(token_n, <<>>, IndexPanic)
                     ELSE Stepped(token_n + 3 + a.size, <<VarDefinition(def_name, a.val)>>,
                                  <<>>))

\* Ops::Reference
ReferenceArm(tokens, token_n) ==
    IF token_n + 1 >= Len(tokens) THEN Stopped(token_n, <<>>, IndexPanic)
    ELSE LET current_token == tokens[token_n + 1]
             next_token == tokens[token_n + 2]
         IN  IF next_token.ast_type = "LeftAssign"
             THEN IF token_n + 2 >= Len(tokens) THEN Stopped(token_n, <<>>, IndexPanic)
                  ELSE Then(get_assignment_token_fn(tokens[token_n + 3].value,
                                token_n + 2, tokens, "LeftToRight"),
                            LAMBDA a :
                               IF a.panic THEN Stopped(token_n, <<>>, IndexPanic)
                               ELSE Stepped(token_n + 2 + a.size,
                                            <<VarAssignment(current_token.value, a.val)>>,
                                            <<>>))
             ELSE IF next_token.ast_type = "OpenParent"
             THEN Then(get_tokens_in_group_of(tokens, token_n + 1,
                                              "OpenParent", "CloseParent"),
                       LAMBDA arguments_tokens :
                  Then(convert_tokens_into_arguments(arguments_tokens), LAMBDA arguments :
                  IF arguments.panic THEN Stopped(token_n, <<>>, IndexPanic)
                  ELSE Stepped(token_n + 3 + Len(arguments_tokens),
                               <<FnCall(current_token.value, arguments.args, None)>>,
                               <<>>)))
             ELSE Stepped(token_n + 1, <<>>, <<>>)

\* an arm that appends a node of the token's own kind
OtherArm_pushing(tokens, token_n) ==
    Stepped(token_n + 1, <<[type |-> tokens[token_n + 1].ast_type]>>, <<>>)

\* every other kind of token
OtherArm(tokens, token_n) == Stepped(token_n + 1, <<>>, <<>>)

\* the kinds of token with an arm of their own
ParseArms ==
    {"Break", "Import", "WhileDef", "Return", "IfConditional", "PropAccess", "FnDef",
     "VarDef", "Reference"}

\* `match current_token.ast_type`
parse_step(tokens, token_n, found) ==
    LET kind == tokens[token_n + 1].ast_type
    IN  CASE kind = "Break" -> BreakArm(tokens, token_n)
          [] kind = "Import" -> ImportArm(tokens, token_n, found)
          [] kind \in {"WhileDef", "IfConditional"} -> BlockArm(tokens, token_n, found)
          [] kind = "Return" -> ReturnArm(tokens, token_n)
          [] kind = "PropAccess" -> PropAccessArm(tokens, token_n)
          [] kind = "FnDef" -> FnDefArm(tokens, token_n, found)
          [] kind = "VarDef" -> VarDefArm(tokens, token_n)
          [] kind = "Reference" -> ReferenceArm(tokens, token_n)
          [] OTHER -> OtherArm(tokens, token_n)

\* `while token_n < tokens.len()`
move_tokens_into_ast_rec(tokens, token_n, body, errs, found) ==
    IF token_n >= Len(tokens) THEN [body |-> body, errs |-> errs, status |-> ""]
    ELSE Then(parse_step(tokens, token_n, found), LAMBDA s :
              IF s.status # ""
              THEN [body |-> body, errs |-> errs \o s.errs, status |-> s.status]
              ELSE move_tokens_into_ast_rec(tokens, s.token_n, body \o s.nodes,
                                            errs \o s.errs, found))

-----------------------------------------------------------------------------
(* The programs the interpreter is run on, as the blocks the parser builds. *)

\* a one-letter name
N(c) == <<c>>
Amp(name) == <<"&">> \o name

Call(fn_name, arguments) == FnCall(fn_name, arguments, None)
MethodCall(receiver, fn_name, arguments) == FnCall(fn_name, arguments, Some(receiver))
Eq(left, right) == ResultExpression("EqualCondition", left, right)
Neq(left, right) == ResultExpression("NotEqualCondition", left, right)

\* a call used as an operand: the block get_assignment_token_fn wraps it in
CallOperand(call, parse_n) ==
    ExpressionBox(<<VarDefinition(n_underscore, FnCallBox(call)),
                    ReturnStatement(Ref(n_underscore))>>, ParseId(parse_n))

\* the literals programs are instantiated with
Literals == {Num(1), Num(2), Str(<<"x">>), Bool(TRUE)}

\* let a = 1 / if a == 1 { let x = 2 } / while a != 3 { let y = a  a.mut_sum(1) } / println(a)
ProgScopes ==
    <<VarDefinition(N("a"), Num(1)),
      IfConditional(<<Eq(Ref(N("a")), Num(1))>>, <<VarDefinition(N("x"), Num(2))>>),
      While(<<Neq(Ref(N("a")), Num(3))>>,
            <<VarDefinition(N("y"), Ref(N("a"))),
              MethodCall(N("a"), n_mut_sum, <<Num(1)>>)>>),
      Call(n_println, <<Ref(N("a"))>>)>>

\* fn f() { if 1 == 1 { let x = 2  return x } } / f() / let d = 1
ProgIfReturn ==
    <<ParsedFnDefinition(N("f"), <<>>,
          <<IfConditional(<<Eq(Num(1), Num(1))>>,
                <<VarDefinition(N("x"), Num(2)), ReturnStatement(Ref(N("x")))>>)>>),
      Call(N("f"), <<>>),
      VarDefinition(N("d"), Num(1))>>

\* let i = 0 / while i != 3 { let y = i  if i == 1 { let z = 1  break }  i.mut_sum(1) } / let d = i
ProgBreak ==
    <<VarDefinition(N("i"), Num(0)),
      While(<<Neq(Ref(N("i")), Num(3))>>,
            <<VarDefinition(N("y"), Ref(N("i"))),
              IfConditional(<<Eq(Ref(N("i")), Num(1))>>,
                            <<VarDefinition(N("z"), Num(1)), Break>>),
              MethodCall(N("i"), n_mut_sum, <<Num(1)>>)>>),
      VarDefinition(N("d"), Ref(N("i")))>>

\* let i = 0 / while i != 2 { let j = 0  while j != 3 { if j == 1 { break }  j.mut_sum(1) }
\*   i.mut_sum(1) } / let d = i
ProgNestedWhile ==
    <<VarDefinition(N("i"), Num(0)),
      While(<<Neq(Ref(N("i")), Num(2))>>,
            <<VarDefinition(N("j"), Num(0)),
              While(<<Neq(Ref(N("j")), Num(3))>>,
                    <<IfConditional(<<Eq(Ref(N("j")), Num(1))>>, <<Break>>),
                      MethodCall(N("j"), n_mut_sum, <<Num(1)>>)>>),
              MethodCall(N("i"), n_mut_sum, <<Num(1)>>)>>),
      VarDefinition(N("d"), Ref(N("i")))>>

\* if 1 == 1 { fn g() { let k = 1 } } / g() / fn f() { fn h() { } } / f() / h()
ProgFnScope ==
    <<IfConditional(<<Eq(Num(1), Num(1))>>,
          <<ParsedFnDefinition(N("g"), <<>>, <<VarDefinition(N("k"), Num(1))>>)>>),
      Call(N("g"), <<>>),
      ParsedFnDefinition(N("f"), <<>>, <<ParsedFnDefinition(N("h"), <<>>, <<>>)>>),
      Call(N("f"), <<>>),
      Call(N("h"), <<>>)>>

\* let a = v / let b = &a / a = w / if b == w { let e = 1 } / println(b)
ProgPointer(v, w) ==
    <<VarDefinition(N("a"), v),
      VarDefinition(N("b"), Ref(Amp(N("a")))),
      VarAssignment(N("a"), w),
      IfConditional(<<Eq(Ref(N("b")), w)>>, <<VarDefinition(N("e"), Num(1))>>),
      Call(n_println, <<Ref(N("b"))>>)>>

\* let a = v / let b = &a / a = w / println(b)
ProgPointerPrint(v, w) ==
    <<VarDefinition(N("a"), v),
      VarDefinition(N("b"), Ref(Amp(N("a")))),
      VarAssignment(N("a"), w),
      Call(n_println, <<Ref(N("b"))>>)>>

\* fn f() { let a = 1  return &a } / f() / let d = 1
ProgDanglingReturn ==
    <<ParsedFnDefinition(N("f"), <<>>,
          <<VarDefinition(N("a"), Num(1)), ReturnStatement(Ref(Amp(N("a"))))>>),
      Call(N("f"), <<>>),
      VarDefinition(N("d"), Num(1))>>

\* let a = 1 / let p = &a / if 1 == 1 { let c = 5  p = &c } / let q = p / <use of a> / let d = 1
ProgDangling(use) ==
    <<VarDefinition(N("a"), Num(1)),
      VarDefinition(N("p"), Ref(Amp(N("a")))),
      IfConditional(<<Eq(Num(1), Num(1))>>,
          <<VarDefinition(N("c"), Num(5)), VarAssignment(N("p"), Ref(Amp(N("c"))))>>),
      VarDefinition(N("q"), Ref(N("p"))),
      use,
      VarDefinition(N("d"), Num(1))>>

\* println(a) and if a == 5 { } as uses of the dangling pointer a
DanglingUses ==
    {Call(n_println, <<Ref(N("a"))>>),
     IfConditional(<<Eq(Ref(N("a")), Num(5))>>, <<>>)}

\* the block parsed from the imported source
\*   fn foo(x) { println(_, x) } / fn two(a, b) { println(a)  println(b) }
\*   fn outer() { fn inner() { } }
ImportedSource ==
    <<ParsedFnDefinition(<<"f", "o", "o">>, <<N("x")>>,
          <<Call(n_println, <<Ref(n_underscore), Ref(N("x"))>>)>>),
      ParsedFnDefinition(<<"t", "w", "o">>, <<N("a"), N("b")>>,
          <<Call(n_println, <<Ref(N("a"))>>), Call(n_println, <<Ref(N("b"))>>)>>),
      ParsedFnDefinition(<<"o", "u", "t", "e", "r">>, <<>>, <<ParsedFnDefinition(<<"i", "n", "n", "e", "r">>, <<>>, <<>>)>>)>>

\* import m from "./x.ham" / m.foo(v) / m.two(v, w) / m.outer() / m.inner()
ProgModule(v, w) ==
    <<ImportedModule(N("m"), ImportedSource),
      MethodCall(N("m"), <<"f", "o", "o">>, <<v>>),
      MethodCall(N("m"), <<"t", "w", "o">>, <<v, w>>),
      MethodCall(N("m"), <<"o", "u", "t", "e", "r">>, <<>>),
      MethodCall(N("m"), <<"i", "n", "n", "e", "r">>, <<>>)>>

\* g() / let x = u / u = 1 / println(u) / let k = 1 / q.sum(1) / let d = 1
ProgErrors ==
    <<Call(N("g"), <<>>),
      VarDefinition(N("x"), Ref(N("u"))),
      VarAssignment(N("u"), Num(1)),
      Call(n_println, <<Ref(N("u"))>>),
      VarDefinition(N("k"), Num(1)),
      MethodCall(N("q"), n_sum, <<Num(1)>>),
      VarDefinition(N("d"), Num(1))>>

\* fn one(a) { println(a) } / one(v) / fn two(a, b) { println(a)  println(b) } / two(v, w)
ProgParams(v, w) ==
    <<ParsedFnDefinition(<<"o", "n", "e">>, <<N("a")>>, <<Call(n_println, <<Ref(N("a"))>>)>>),
      Call(<<"o", "n", "e">>, <<v>>),
      ParsedFnDefinition(<<"t", "w", "o">>, <<N("a"), N("b")>>,
          <<Call(n_println, <<Ref(N("a"))>>), Call(n_println, <<Ref(N("b"))>>)>>),
      Call(<<"t", "w", "o">>, <<v, w>>)>>

\* let n = v / if 1 == 1 { let n = w  println(n) } / println(n)
ProgShadow(v, w) ==
    <<VarDefinition(N("n"), v),
      IfConditional(<<Eq(Num(1), Num(1))>>,
          <<VarDefinition(N("n"), w), Call(n_println, <<Ref(N("n"))>>)>>),
      Call(n_println, <<Ref(N("n"))>>)>>

\* fn add(a) { return a.sum(1) } / let r = add(4) / println(r)
ProgCarrier ==
    <<ParsedFnDefinition(<<"a", "d", "d">>, <<N("a")>>,
          <<ReturnStatement(CallOperand(MethodCall(N("a"), n_sum, <<Num(1)>>), 1))>>),
      VarDefinition(N("r"), CallOperand(Call(<<"a", "d", "d">>, <<Num(4)>>), 2)),
      Call(n_println, <<Ref(N("r"))>>)>>

\* while 1 == 1 { }
ProgForever == <<While(<<Eq(Num(1), Num(1))>>, <<>>)>>

\* let g = 7 / fn f() { let i = 0  while i != 3 { if i == 1 { return <operand> }
\*   i.mut_sum(1) }  println("late") } / f() / println("end")
ProgReturn(operand) ==
    <<VarDefinition(N("g"), Num(7)),
      ParsedFnDefinition(N("f"), <<>>,
          <<VarDefinition(N("i"), Num(0)),
            While(<<Neq(Ref(N("i")), Num(3))>>,
                  <<IfConditional(<<Eq(Ref(N("i")), Num(1))>>,
                                  <<ReturnStatement(operand)>>),
                    MethodCall(N("i"), n_mut_sum, <<Num(1)>>)>>),
            Call(n_println, <<Str(<<"l", "a", "t", "e">>)>>)>>),
      Call(N("f"), <<>>),
      Call(n_println, <<Str(<<"e", "n", "d">>)>>)>>

\* a literal, a local, a global, and a name that is not defined
ReturnOperands == {Num(2), Ref(N("i")), Ref(N("g")), Ref(N("u"))}

\* let i = 0 / while i != N { println(i)  i.mut_sum(1) } / println("end")
ProgCount(count) ==
    <<VarDefinition(N("i"), Num(0)),
      While(<<Neq(Ref(N("i")), Num(count))>>,
            <<Call(n_println, <<Ref(N("i"))>>),
              MethodCall(N("i"), n_mut_sum, <<Num(1)>>)>>),
      Call(n_println, <<Str(<<"e", "n", "d">>)>>)>>

\* let i = 0 / let j = 1 / while i != 3  j != 3 { println(i)  i.mut_sum(1)  j.mut_sum(1) }
\* / println("end")
ProgTwoConditions ==
    <<VarDefinition(N("i"), Num(0)),
      VarDefinition(N("j"), Num(1)),
      While(<<Neq(Ref(N("i")), Num(3)), Neq(Ref(N("j")), Num(3))>>,
            <<Call(n_println, <<Ref(N("i"))>>),
              MethodCall(N("i"), n_mut_sum, <<Num(1)>>),
              MethodCall(N("j"), n_mut_sum, <<Num(1)>>)>>),
      Call(n_println, <<Str(<<"e", "n", "d">>)>>)>>

\* the values compared in conditions: a number, a boolean and the strings they print as
CompareValues == {Num(1), Str(<<"1">>), Bool(TRUE), Str(<<"t", "r", "u", "e">>)}
\* the operands of the compared conditions: the values, the variable a and the pointer p to it
CompareOperands == CompareValues \cup {Ref(N("a")), Ref(N("p"))}

\* let a = v / a = w / let p = &a / if left == right { println("eq") }
\* / if left != right { println("ne") } / println("end")
ProgCompare(v, w, left, right) ==
    <<VarDefinition(N("a"), v),
      VarAssignment(N("a"), w),
      VarDefinition(N("p"), Ref(Amp(N("a")))),
      IfConditional(<<Eq(left, right)>>, <<Call(n_println, <<Str(<<"e", "q">>)>>)>>),
      IfConditional(<<Neq(left, right)>>, <<Call(n_println, <<Str(<<"n", "e">>)>>)>>),
      Call(n_println, <<Str(<<"e", "n", "d">>)>>)>>

\* the one-statement bodies of the function whose result ProgStore stores
StoreBodies ==
    {Break,
     ReturnStatement(Num(2)),
     ReturnStatement(Ref(N("a"))),
     ReturnStatement(Ref(N("q"))),
     ReturnStatement(Ref(Amp(N("q")))),
     While(<<Eq(Num(1), Num(1))>>, <<Break>>),
     While(<<Eq(Num(1), Num(1))>>, <<ReturnStatement(Str(<<"x">>))>>)}

\* let a = 1 / fn f(q) { <statement> } / let x = f(&a) / let y = 0 / y = f(a)
\* / println(x) / println(y)
ProgStore(statement) ==
    <<VarDefinition(N("a"), Num(1)),
      ParsedFnDefinition(N("f"), <<N("q")>>, <<statement>>),
      VarDefinition(N("x"), CallOperand(Call(N("f"), <<Ref(Amp(N("a")))>>), 1)),
      VarDefinition(N("y"), Num(0)),
      VarAssignment(N("y"), CallOperand(Call(N("f"), <<Ref(N("a"))>>), 2)),
      Call(n_println, <<Ref(N("x"))>>),
      Call(n_println, <<Ref(N("y"))>>)>>

\* fn g() { println(x) } / fn f() { let x = w  g() } / f() / println("end")
ProgCallerLocal(w) ==
    <<ParsedFnDefinition(N("g"), <<>>, <<Call(n_println, <<Ref(N("x"))>>)>>),
      ParsedFnDefinition(N("f"), <<>>, <<VarDefinition(N("x"), w), Call(N("g"), <<>>)>>),
      Call(N("f"), <<>>),
      Call(n_println, <<Str(<<"e", "n", "d">>)>>)>>

\* let x = v / fn g() { println(x) } / fn f() { let x = w  g() } / f() / println("end")
ProgDefinitionSite(v, w) ==
    <<VarDefinition(N("x"), v)>> \o ProgCallerLocal(w)

\* let n = v / let r = n.sum(k) / println(r) / println(n) / n.mut_sum(k) / println(n)
ProgSum(v, k) ==
    <<VarDefinition(N("n"), Num(v)),
      VarDefinition(N("r"), CallOperand(MethodCall(N("n"), n_sum, <<Num(k)>>), 1)),
      Call(n_println, <<Ref(N("r"))>>),
      Call(n_println, <<Ref(N("n"))>>),
      MethodCall(N("n"), n_mut_sum, <<Num(k)>>),
      Call(n_println, <<Ref(N("n"))>>)>>

\* the templates and arguments format is called with
FormatTemplates == {<<"{", "}", " ", "{", "}">>, <<"a", "{", "}">>, <<"{", "}", "}">>}
FormatArgs == {Str(<<"x">>), Num(1), Str(<<"{", "}">>), Str(<<"{">>)}

\* let m = format(template, a, b) / println(m)
ProgFormat(template, a, b) ==
    <<VarDefinition(N("m"), CallOperand(Call(n_format, <<Str(template), a, b>>), 1)),
      Call(n_println, <<Ref(N("m"))>>)>>

\* let a = 1 / if 1 == 1 { let b = 2 } / b = v / c = v / println(a)
ProgAssignMissing(v) ==
    <<VarDefinition(N("a"), Num(1)),
      IfConditional(<<Eq(Num(1), Num(1))>>, <<VarDefinition(N("b"), Num(2))>>),
      VarAssignment(N("b"), v),
      VarAssignment(N("c"), v),
      Call(n_println, <<Ref(N("a"))>>)>>

\* let a = 1 / let p = &a / if 1 == 1 { let c = 5  p = &c } / a = v / let d = 1
\* (p = &c writes the pointer to c into a, the target of p; c is dropped with the block)
ProgAssignDangling(v) ==
    <<VarDefinition(N("a"), Num(1)),
      VarDefinition(N("p"), Ref(Amp(N("a")))),
      IfConditional(<<Eq(Num(1), Num(1))>>,
          <<VarDefinition(N("c"), Num(5)), VarAssignment(N("p"), Ref(Amp(N("c"))))>>),
      VarAssignment(N("a"), v),
      VarDefinition(N("d"), Num(1))>>

\* fn f() { println("one") } / fn f() { println("two") } / f()
ProgRedefine ==
    <<ParsedFnDefinition(N("f"), <<>>, <<Call(n_println, <<Str(<<"o", "n", "e">>)>>)>>),
      ParsedFnDefinition(N("f"), <<>>, <<Call(n_println, <<Str(<<"t", "w", "o">>)>>)>>),
      Call(N("f"), <<>>)>>

\* let a = v / let x = u / let a = u / let x = g() with the call as the operand /
\* let x = g() as the parser wraps it / let x = <pointer to the id 9, which no
\* variable of the run carries> / println(a)
ProgVarDefFails(v) ==
    <<VarDefinition(N("a"), v),
      VarDefinition(N("x"), Ref(N("u"))),
      VarDefinition(N("a"), Ref(N("u"))),
      VarDefinition(N("x"), FnCallBox(Call(N("g"), <<>>))),
      VarDefinition(N("x"), CallOperand(Call(N("g"), <<>>), 1)),
      VarDefinition(N("x"), Ptr(9)),
      Call(n_println, <<Ref(N("a"))>>)>>

\* let a = v / let b = a / a = w / b = 3 / println("x")
ProgCopy(v, w) ==
    <<VarDefinition(N("a"), v),
      VarDefinition(N("b"), Ref(N("a"))),
      VarAssignment(N("a"), w),
      VarAssignment(N("b"), Num(3)),
      Call(n_println, <<Str(<<"x">>)>>)>>

\* let a = 1 / let b = a / a.mut_sum(k) / b.mut_sum(k) / println("x")
ProgCopySum(k) ==
    <<VarDefinition(N("a"), Num(1)),
      VarDefinition(N("b"), Ref(N("a"))),
      MethodCall(N("a"), n_mut_sum, <<Num(k)>>),
      MethodCall(N("b"), n_mut_sum, <<Num(k)>>),
      Call(n_println, <<Str(<<"x">>)>>)>>

\* the body of f in ProgCopyParam: p = w / a = 3 / println("x")
CopyParamBody(w) ==
    <<VarAssignment(N("p"), w),
      VarAssignment(N("a"), Num(3)),
      Call(n_println, <<Str(<<"x">>)>>)>>

\* let a = v / fn f(p) { p = w  a = 3  println("x") } / f(a) / println("x")
ProgCopyParam(v, w) ==
    <<VarDefinition(N("a"), v),
      ParsedFnDefinition(N("f"), <<N("p")>>, CopyParamBody(w)),
      Call(N("f"), <<Ref(N("a"))>>),
      Call(n_println, <<Str(<<"x">>)>>)>>

\* how b came to hold the pointer, and the two spellings of the target
ThroughHows == {"defined", "assigned"}
ThroughTargets == {N("b"), Amp(N("b"))}

\* let t = 1 / let c = 2 / let b = &t / target = v / println("x"), or with b
\* assigned the pointer: let t = 1 / let b = 0 / b = &t / target = v / println("x")
ProgThrough(how, target, v) ==
    <<VarDefinition(N("t"), Num(1))>>
    \o (IF how = "defined"
        THEN <<VarDefinition(N("c"), Num(2)), VarDefinition(N("b"), Ref(Amp(N("t"))))>>
        ELSE <<VarDefinition(N("b"), Num(0)), VarAssignment(N("b"), Ref(Amp(N("t"))))>>)
    \o <<VarAssignment(target, v), Call(n_println, <<Str(<<"x">>)>>)>>

\* f returns a value, n returns nothing; the argument is a literal, the live
\* variable b, a pointer to it, or p, which leads through a to the variable c
\* that went with the if block
UnusedCallees == {N("f"), N("n")}
UnusedArgs == {Num(2), Ref(N("b")), Ref(Amp(N("b"))), Ref(N("p"))}

\* fn f(x) { return 1 } / fn n(x) { let k = 1 } / let b = 3 / let a = 1 /
\* let p = &a / if 1 == 1 { let c = 5  p = &c } / callee(arg) / println("x")
ProgUnusedResult(callee, arg) ==
    <<ParsedFnDefinition(N("f"), <<N("x")>>, <<ReturnStatement(Num(1))>>),
      ParsedFnDefinition(N("n"), <<N("x")>>, <<VarDefinition(N("k"), Num(1))>>),
      VarDefinition(N("b"), Num(3)),
      VarDefinition(N("a"), Num(1)),
      VarDefinition(N("p"), Ref(Amp(N("a")))),
      IfConditional(<<Eq(Num(1), Num(1))>>,
          <<VarDefinition(N("c"), Num(5)), VarAssignment(N("p"), Ref(Amp(N("c"))))>>),
      Call(callee, <<arg>>),
      Call(n_println, <<Str(<<"x">>)>>)>>

\* the first argument of ProgArgOrder: a literal, or the undefined name u
ArgOrderFirsts == {Num(1), Str(<<"y">>), Ref(N("u"))}

\* the body of two in ProgArgOrder: println(b)
ArgOrderBody == <<Call(n_println, <<Ref(N("b"))>>)>>

\* fn two(a, b) { println(b) } / two(first, second) / println("x")
ProgArgOrder(first, second) ==
    <<ParsedFnDefinition(<<"t", "w", "o">>, <<N("a"), N("b")>>, ArgOrderBody),
      Call(<<"t", "w", "o">>, <<first, second>>),
      Call(n_println, <<Str(<<"x">>)>>)>>

\* no argument, one argument and two arguments for a function of one parameter
ArityArguments == {<<>>, <<Num(1)>>, <<Num(1), Num(2)>>}

\* fn one(a) { println("in") } / one(args) / println("x")
ProgArity(args) ==
    <<ParsedFnDefinition(<<"o", "n", "e">>, <<N("a")>>,
          <<Call(n_println, <<Str(<<"i", "n">>)>>)>>),
      Call(<<"o", "n", "e">>, args),
      Call(n_println, <<Str(<<"x">>)>>)>>

\* what p, which points to a, is assigned a pointer to
CycleTargets == {N("a"), N("p"), N("c")}

\* let a = 1 / let c = 2 / let p = &a / p = &target / println(c) / println(a)
ProgCycle(target) ==
    <<VarDefinition(N("a"), Num(1)),
      VarDefinition(N("c"), Num(2)),
      VarDefinition(N("p"), Ref(Amp(N("a")))),
      VarAssignment(N("p"), Ref(Amp(target))),
      Call(n_println, <<Ref(N("c"))>>),
      Call(n_println, <<Ref(N("a"))>>)>>

\* function bodies that break outside any while: at once, and from an if
BreakingBodies ==
    {<<Break, Call(n_println, <<Str(<<"n", "o">>)>>)>>,
     <<IfConditional(<<Eq(Num(1), Num(1))>>, <<Break>>),
       Call(n_println, <<Str(<<"n", "o">>)>>)>>}

\* let i = 0 / fn f() { body } /
\* while i != 2 { f()  let r = f()  i.mut_sum(1)  println(i) } / println("end")
ProgBreakInCallee(body) ==
    <<VarDefinition(N("i"), Num(0)),
      ParsedFnDefinition(N("f"), <<>>, body),
      While(<<Neq(Ref(N("i")), Num(2))>>,
            <<Call(N("f"), <<>>),
              VarDefinition(N("r"), CallOperand(Call(N("f"), <<>>), 1)),
              MethodCall(N("i"), n_mut_sum, <<Num(1)>>),
              Call(n_println, <<Ref(N("i"))>>)>>),
      Call(n_println, <<Str(<<"e", "n", "d">>)>>)>>

BreakingPrograms == {ProgBreakInCallee(body) : body \in BreakingBodies}

\* fn print(x) { println("mine") } / print("a")
ProgRedefinePrint ==
    <<ParsedFnDefinition(n_print, <<N("x")>>,
          <<Call(n_println, <<Str(<<"m", "i", "n", "e">>)>>)>>),
      Call(n_print, <<Str(<<"a">>)>>)>>

Programs ==
    {ProgScopes, ProgIfReturn, ProgBreak, ProgNestedWhile, ProgFnScope,
     ProgDanglingReturn, ProgErrors, ProgCarrier, ProgForever}
    \cup {ProgPointer(v, w) : v \in Literals, w \in Literals}
    \cup {ProgPointerPrint(v, w) : v \in Literals, w \in Literals}
    \cup {ProgDangling(use) : use \in DanglingUses}
    \cup {ProgModule(v, w) : v \in {Num(1)}, w \in {Num(2), Str(<<"x">>)}}
    \cup {ProgParams(v, w) : v \in {Num(1), Str(<<"x">>)}, w \in {Num(2), Bool(TRUE)}}
    \cup {ProgShadow(v, w) : v \in {Num(1), Str(<<"x">>)}, w \in {Num(2)}}
    \cup {ProgReturn(operand) : operand \in ReturnOperands}
    \cup {ProgCount(count) : count \in 0..MaxCount}
    \cup {ProgTwoConditions}
    \cup {ProgRedefine, ProgRedefinePrint}
    \cup {ProgVarDefFails(v) : v \in Literals}
    \cup {ProgCopy(v, w) : v \in Literals, w \in Literals}
    \cup {ProgBreakInCallee(body) : body \in BreakingBodies}
    \cup {ProgCycle(target) : target \in CycleTargets}
    \cup {ProgArity(args) : args \in ArityArguments}
    \cup {ProgArgOrder(first, second) : first \in ArgOrderFirsts, second \in Literals}
    \cup {ProgUnusedResult(callee, arg) : callee \in UnusedCallees, arg \in UnusedArgs}
    \cup {ProgThrough(how, target, v) :
              how \in ThroughHows, target \in ThroughTargets, v \in Literals}
    \cup {ProgCopySum(k) : k \in 1..MaxNumber}
    \cup {ProgCopyParam(v, w) : v \in Literals, w \in Literals}
    \cup {ProgAssignDangling(v) : v \in Literals}
    \cup {ProgAssignMissing(v) : v \in Literals}
    \cup {ProgFormat(template, a, b) :
              template \in FormatTemplates, a \in FormatArgs, b \in FormatArgs}
    \cup {ProgSum(v, k) : v \in 0..MaxNumber, k \in 0..MaxNumber}
    \cup {ProgCallerLocal(w) : w \in Literals}
    \cup {ProgDefinitionSite(v, w) : v \in Literals, w \in Literals}
    \cup {ProgStore(statement) : statement \in StoreBodies}
    \cup {ProgCompare(v, w, left, right) :
              v \in CompareValues, w \in CompareValues,
              left \in CompareOperands, right \in CompareOperands}

-----------------------------------------------------------------------------
(* The interpreter: a run of run_ast on a program with a fresh stack *)

-----------------------------------------------------------------------------
(* The Mutex<Stack>.  Every `stack.lock().unwrap()` of the source is a        *)
(* temporary MutexGuard; it lives to the end of the statement it is written  *)
(* in.  For each step of the evaluator the events on the lock are listed in  *)
(* the order of the source: "lock" and "unlock" for a guard, "call" for a    *)
(* call of something that takes the lock itself (resolve_reference,          *)
(* value_to_string, run_ast, a function callback).                            *)

\* a guard kept alive over the call of the callback body
StackLocks_guard_kept(action) ==
    CASE action = "CallUser" -> <<"lock", "unlock", "lock", "call">>
      [] OTHER -> <<>>

\* the events of each step
StackLocks(action) ==
    LET \* one statement `stack.lock().unwrap().operation(..)`
        guarded == <<"lock", "unlock">>
        \* value_to_string: the POINTER arm reads the target, then recurses
        to_string == <<"call">> \o guarded \o <<"call">>
        \* resolve_reference: the POINTER and REFERENCE arms read one variable
        resolve == <<"call">> \o guarded
    IN
    CASE action = "StmtModule" -> <<"lock", "unlock", "lock", "unlock">>
      [] action = "StmtFnDef" -> <<"lock", "unlock">>
      [] action = "StmtVarDef" -> <<"call">>
      [] action = "VarDefRet" -> <<"lock", "unlock", "lock", "unlock">>
      [] action = "StmtVarAssign" -> <<"call">>
      [] action = "VarAssignRet" -> <<"lock", "unlock">>
      [] action = "StmtReturn" -> <<"call">>
      [] action = "CondOperand" -> <<"call">>
      [] action = "CondRet" -> to_string \o to_string
      [] action = "CondEnterBody" -> <<"call">>
      [] action = "IfRet" -> <<"lock", "unlock">>
      [] action = "WhileRet" -> <<"lock", "unlock">>
      [] action = "ResolveValue" -> guarded
      [] action = "ResolveFnCall" -> <<"lock", "unlock">>
      [] action = "ResolveExpression" -> <<"call">>
      [] action = "CarrierRet" -> <<"lock", "unlock">>
      [] action = "StmtFnCall" -> <<"lock", "unlock">>
      [] action = "CallArg" -> <<"call">>
      [] action = "CallNative" ->
            \* the callback (sum, mut_sum: the receiver's name, its variable,
            \* modify_var; the others: values_to_strings), then the check of
            \* the returned value
            <<"call">> \o to_string \o guarded \o guarded \o to_string \o to_string
      [] action = "CallUser" -> <<"lock", "unlock", "lock", "unlock", "call">>
      [] action = "CbRet" -> guarded \o resolve \o to_string \o to_string
      [] action = "ApiPushVariable" -> <<"lock", "unlock", "lock", "unlock">>
      [] action = "ApiPushFunction" -> <<"lock", "unlock">>
      [] action = "ApiDropScope" -> <<"lock", "unlock">>
      [] OTHER -> <<>>

\* std::sync::Mutex: locking a mutex the thread already holds never returns
RECURSIVE RunLocks(_, _)
RunLocks(lock, events) ==
    IF events = <<>> \/ lock = "deadlock" THEN lock
    ELSE RunLocks(CASE Head(events) = "lock" -> IF lock = "free" THEN "held" ELSE "deadlock"
                    [] Head(events) = "unlock" -> "free"
                    [] Head(events) = "call" -> IF lock = "free" THEN "free" ELSE "deadlock",
                  Tail(events))

\* the step takes and releases the lock as its events say
Locking(action) ==
    /\ stack_lock # "deadlock"
    /\ stack_lock' = RunLocks(stack_lock, StackLocks(action))

Init ==
    /\ prog \in Programs
    /\ variables = StackNew(RootId).variables
    /\ functions = StackNew(RootId).functions
    /\ item_index = StackNew(RootId).item_index
    /\ uuid = 0
    /\ frames = <<RunAstFrame(prog, RootId)>>
    /\ ret = None
    /\ mode = "exec"
    /\ errors = <<>>
    /\ out = <<>>
    /\ status = "running"
    /\ code = <<>>
    /\ lines = <<>>
    /\ created_tokens = <<>>
    /\ stack_lock = "free"

Next ==
    \/ StmtBreak /\ Locking("StmtBreak")
    \/ StmtModule /\ Locking("StmtModule")
    \/ StmtFnDef /\ Locking("StmtFnDef")
    \/ StmtVarDef /\ Locking("StmtVarDef")
    \/ VarDefRet /\ Locking("VarDefRet")
    \/ StmtVarAssign /\ Locking("StmtVarAssign")
    \/ VarAssignRet /\ Locking("VarAssignRet")
    \/ StmtReturn /\ Locking("StmtReturn")
    \/ ReturnRet /\ Locking("ReturnRet")
    \/ StmtIfConditional /\ Locking("StmtIfConditional")
    \/ StmtWhileDef /\ Locking("StmtWhileDef")
    \/ BlockEnd /\ Locking("BlockEnd")
    \/ CondOperand /\ Locking("CondOperand")
    \/ CondRet /\ Locking("CondRet")
    \/ CondEnterBody /\ Locking("CondEnterBody")
    \/ CondSkipBody /\ Locking("CondSkipBody")
    \/ IfRet /\ Locking("IfRet")
    \/ WhileRet /\ Locking("WhileRet")
    \/ ResolveValue /\ Locking("ResolveValue")
    \/ ResolveFnCall /\ Locking("ResolveFnCall")
    \/ ResolveExpression /\ Locking("ResolveExpression")
    \/ CarrierRet /\ Locking("CarrierRet")
    \/ StmtFnCall /\ Locking("StmtFnCall")
    \/ CallArg /\ Locking("CallArg")
    \/ CallArgRet /\ Locking("CallArgRet")
    \/ CallNative /\ Locking("CallNative")
    \/ CallUser /\ Locking("CallUser")
    \/ CbRet /\ Locking("CbRet")
    \/ Halt /\ Locking("Halt")

Spec == Init /\ [][Next]_vars

-----------------------------------------------------------------------------
(* The stack driven directly through its API: reseve_index + push_variable as
   every push site does, and drop_ops_from_id *)

ApiNames == {N("n"), N("k")}
ApiValues == {Num(1), Str(<<"x">>)}
ApiScopes == {RunId(1), RunId(2)}
ApiFnNames == {N("f")}

StackInit ==
    /\ prog = <<>>
    /\ variables = StackNew(RootId).variables
    /\ functions = StackNew(RootId).functions
    /\ item_index = StackNew(RootId).item_index
    /\ uuid = 0
    /\ frames = <<>>
    /\ ret = None
    /\ mode = "exec"
    /\ errors = <<>>
    /\ out = <<>>
    /\ status = "api"
    /\ code = <<>>
    /\ lines = <<>>
    /\ created_tokens = <<>>
    /\ stack_lock = "free"

\* let var_id = stack.reseve_index(); stack.push_variable(VariableDef { .. })
ApiPushVariable ==
    /\ item_index < MaxApiIndex
    /\ \E name \in ApiNames, value \in ApiValues, expr_id \in ApiScopes :
          LET var_id == reseve_index(item_index)
          IN  /\ item_index' = var_id
              /\ variables' = push_variable(variables,
                     VariableDef(name, value.interface, value.value, expr_id,
                                 get_methods_in_type(value.interface), var_id))
    /\ UNCHANGED <<functions, uuid, frames, ret, mode, errors, out, status, prog, lexVars>>

\* stack.push_function(FunctionDef { .. })
ApiPushFunction ==
    /\ \E name \in ApiFnNames, expr_id \in ApiScopes :
          functions' = push_function(functions, FunctionDef(name, <<>>, <<>>, "user", expr_id))
    /\ UNCHANGED <<variables, item_index, uuid, frames, ret, mode, errors, out, status, prog, lexVars>>

\* stack.drop_ops_from_id(expr_id)
ApiDropScope ==
    /\ \E expr_id \in ApiScopes :
          /\ \/ \E i \in 1..Len(variables) : variables[i].expr_id = expr_id
             \/ \E e \in functions : e.def.expr_id = expr_id
          /\ SetStack(drop_ops_from_id(StackNow, expr_id))
    /\ UNCHANGED <<uuid, frames, ret, mode, errors, out, status, prog, lexVars>>

StackNext ==
    \/ ApiPushVariable /\ Locking("ApiPushVariable")
    \/ ApiPushFunction /\ Locking("ApiPushFunction")
    \/ ApiDropScope /\ Locking("ApiDropScope")

StackSpec == StackInit /\ [][StackNext]_vars

-----------------------------------------------------------------------------
(* The lexer on its own: get_tokens applied to source texts *)

\* the pieces source texts are put together from
Pieces ==
    {<<" ">>, <<"\n">>, <<"/", "/">>, <<"(">>, <<")">>, <<",">>, <<".">>,
     <<"f", "n">>, <<"=">>, <<"x">>, <<"{">>, <<"\"">>}

\* the texts of at most n pieces
RECURSIVE Texts(_)
Texts(n) ==
    IF n = 0 THEN {<<>>}
    ELSE LET shorter == Texts(n - 1)
         IN  shorter \cup {text \o piece : text \in shorter, piece \in Pieces}

\* CODE of tests/tokenizer.rs: fn x(b){ let c = b return c } x(4)
TestCode ==
    <<"f", "n", " ", "x", "(", "b", ")", "{", " ", "l", "e", "t", " ", "c", " ", "=", " ",
      "b", " ", "r", "e", "t", "u", "r", "n", " ", "c", " ", "}", " ", "x", "(", "4", ")">>

Sources == Texts(MaxPieces) \cup {TestCode}

LexInit ==
    /\ code \in Sources
    /\ lines = <<>>
    /\ created_tokens = <<>>
    /\ status = "get_lines"
    /\ prog = <<>>
    /\ variables = StackNew(RootId).variables
    /\ functions = StackNew(RootId).functions
    /\ item_index = StackNew(RootId).item_index
    /\ uuid = 0
    /\ frames = <<>>
    /\ ret = None
    /\ mode = "exec"
    /\ errors = <<>>
    /\ out = <<>>
    /\ stack_lock = "free"

\* let lines = self::get_lines(code)
GetLines ==
    /\ status = "get_lines"
    /\ lines' = get_lines(code)
    /\ status' = "transform_into_tokens"
    /\ UNCHANGED <<variables, functions, item_index, uuid, frames, ret, mode, errors, out, prog,
                   code, created_tokens>>

\* self::transform_into_tokens(lines)
TransformIntoTokens ==
    /\ status = "transform_into_tokens"
    /\ created_tokens' = transform_into_tokens(lines)
    /\ status' = "tokens"
    /\ UNCHANGED <<variables, functions, item_index, uuid, frames, ret, mode, errors, out, prog,
                   code, lines>>

LexNext ==
    \/ GetLines /\ Locking("GetLines")
    \/ TransformIntoTokens /\ Locking("TransformIntoTokens")

LexSpec == LexInit /\ [][LexNext]_vars

-----------------------------------------------------------------------------
(* The parser on its own: move_tokens_into_ast applied to token lists, one   *)
(* step per turn of its dispatch loop.  created_tokens is the list, the one  *)
(* frame holds the cursor, the body built so far and whether the loader      *)
(* finds imported files.                                                     *)

ParseWords == {<<".">>, <<"x">>, <<"(">>, <<")">>, <<"=">>, <<"l", "e", "t">>, <<"{">>}

\* the token lists of n words or fewer
RECURSIVE WordLists(_)
WordLists(n) ==
    IF n = 0 THEN {<<>>}
    ELSE WordLists(n - 1)
         \cup {Append(ws, w) : ws \in {l \in WordLists(n - 1) : Len(l) = n - 1}, w \in ParseWords}

w_let == <<"l", "e", "t">>
w_quoted_path == <<"\"", "p", "\"">>

\* let r = f ( g ( 1 ) , 2 )   and   f ( g ( 1 ) , 2 )
NestedStatementWords ==
    <<<<"f">>, w_open_parent, <<"g">>, w_open_parent, <<"1">>, w_close_parent, w_comma,
      <<"2">>, w_close_parent>>
NestedOperandWords == <<w_let, <<"r">>, <<"=">>>> \o NestedStatementWords

\* import m from "p"
ImportWords == <<<<"i", "m", "p", "o", "r", "t">>, <<"m">>, <<"f", "r", "o", "m">>, w_quoted_path>>

\* statements that follow the import
ImportRests ==
    {<<>>,
     <<<<"b", "r", "e", "a", "k">>>>,
     <<<<"x">>, <<"=">>, <<"1">>>>,
     <<w_let, <<"a">>, <<"=">>, <<"t", "r", "u", "e">>, <<"x">>, <<"=">>, <<"a">>>>,
     <<<<"f">>, w_open_parent, <<"1">>, w_close_parent>>,
     <<w_let, <<"a">>, <<"=">>, <<"f">>, w_open_parent, <<"1">>, w_close_parent>>,
     <<w_fn, <<"h">>, w_open_parent, w_close_parent, <<"{">>, <<"b", "r", "e", "a", "k">>, <<"}">>>>}

\* import m from "p"  while x == 1 { break }  if x != 1 { x = 2 }
\* fn f ( a ) { return a }  let y = 1  y . sum ( 1 )  f ( y )
AllKindsWords ==
    ImportWords
    \o <<<<"w", "h", "i", "l", "e">>, <<"x">>, <<"=", "=">>, <<"1">>, <<"{">>,
         <<"b", "r", "e", "a", "k">>, <<"}">>>>
    \o <<<<"i", "f">>, <<"x">>, <<"!", "=">>, <<"1">>, <<"{">>, <<"x">>, <<"=">>, <<"2">>, <<"}">>>>
    \o <<w_fn, <<"f">>, w_open_parent, <<"a">>, w_close_parent, <<"{">>,
         <<"r", "e", "t", "u", "r", "n">>, <<"a">>, <<"}">>>>
    \o <<w_let, <<"y">>, <<"=">>, <<"1">>>>
    \o <<<<"y">>, <<".">>, n_sum, w_open_parent, <<"1">>, w_close_parent>>
    \o <<<<"f">>, w_open_parent, <<"y">>, w_close_parent>>

\* x . y = 1
PropertyAssignWords == <<<<"x">>, <<".">>, <<"y">>, <<"=">>, <<"1">>>>

\* return f ( 1 )  x = 2
ReturnWords ==
    <<<<"r", "e", "t", "u", "r", "n">>, <<"f">>, w_open_parent, <<"1">>, w_close_parent,
      <<"x">>, <<"=">>, <<"2">>>>

ParseInputs ==
    {Words(ws) : ws \in WordLists(MaxTokens)}
    \cup {Words(NestedOperandWords), Words(NestedStatementWords), Words(AllKindsWords),
          Words(PropertyAssignWords), Words(ReturnWords)}
    \cup {Words(ImportWords \o rest) : rest \in ImportRests}

ParseFrame(token_n, body, found) ==
    [k |-> "parse", token_n |-> token_n, body |-> body, found |-> found]

ParseInit ==
    /\ created_tokens \in ParseInputs
    /\ \E found \in BOOLEAN : frames = <<ParseFrame(0, <<>>, found)>>
    /\ status = "parsing"
    /\ errors = <<>>
    /\ code = <<>>
    /\ lines = <<>>
    /\ prog = <<>>
    /\ variables = StackNew(RootId).variables
    /\ functions = StackNew(RootId).functions
    /\ item_index = StackNew(RootId).item_index
    /\ uuid = 0
    /\ ret = None
    /\ mode = "exec"
    /\ out = <<>>
    /\ stack_lock = "free"

\* one turn of `while token_n < tokens.len()` on a token whose kind is in kinds
ParseArm(kinds) ==
    /\ status = "parsing"
    /\ Top.token_n < Len(created_tokens)
    /\ created_tokens[Top.token_n + 1].ast_type \in kinds
    /\ \E s \in {parse_step(created_tokens, Top.token_n, Top.found)} :
          /\ errors' = errors \o s.errs
          /\ IF s.status # ""
             THEN /\ status' = s.status
                  /\ UNCHANGED frames
             ELSE /\ frames' = <<ParseFrame(s.token_n, Top.body \o s.nodes, Top.found)>>
                  /\ UNCHANGED status
    /\ UNCHANGED <<variables, functions, item_index, uuid, ret, mode, out, prog, lexVars>>

\* the loop ends: the cursor is at or beyond the end of the list
ParseEnd ==
    /\ status = "parsing"
    /\ Top.token_n >= Len(created_tokens)
    /\ status' = "parsed"
    /\ UNCHANGED <<variables, functions, item_index, uuid, frames, ret, mode, errors, out, prog,
                   lexVars>>

\* the kinds of token without an arm of their own
OtherKinds ==
    {"LeftAssign", "OpenParent", "CloseParent", "OpenBlock", "CloseBlock", "EqualCondition",
     "NotEqualCondition", "CommaDelimiter", "FromModule"}

ParseNext ==
    \/ ParseArm({"Break"}) /\ Locking("ParseBreak")
    \/ ParseArm({"Import"}) /\ Locking("ParseImport")
    \/ ParseArm({"WhileDef"}) /\ Locking("ParseWhileDef")
    \/ ParseArm({"Return"}) /\ Locking("ParseReturn")
    \/ ParseArm({"IfConditional"}) /\ Locking("ParseIfConditional")
    \/ ParseArm({"PropAccess"}) /\ Locking("ParsePropAccess")
    \/ ParseArm({"FnDef"}) /\ Locking("ParseFnDef")
    \/ ParseArm({"VarDef"}) /\ Locking("ParseVarDef")
    \/ ParseArm({"Reference"}) /\ Locking("ParseReference")
    \/ ParseArm(OtherKinds) /\ Locking("ParseOther")
    \/ ParseEnd /\ Locking("ParseEnd")

ParseSpec == ParseInit /\ [][ParseNext]_vars

-----------------------------------------------------------------------------
(* Vocabulary of the properties *)

\* ids of the blocks whose evaluation has not finished yet
ActiveScopes ==
    {RootId} \cup
    {frames[i].expr_id :
        i \in {j \in 1..Len(frames) :
                  frames[j].k \in {"run_ast", "if", "while", "cb", "carrier"}}}

\* the text a literal prints as
LiteralText(lit) ==
    CASE lit.interface = "Number" -> NumToStr(lit.value.n)
      [] lit.interface = "String" -> lit.value.s
      [] lit.interface = "Boolean" -> BoolToStr(lit.value.b)

\* one line written by println
Line(text) == text \o <<"\n">>

\* the variable a name resolves to holds the literal lit
Holds(var_name, lit) ==
    /\ get_variable_by_name(variables, var_name).some
    /\ get_variable_by_name(variables, var_name).val.val_type = lit.interface
    /\ get_variable_by_name(variables, var_name).val.value = lit.value

Finished == status # "running"

\* a Break sentinel is being returned to the innermost activation
BreakInFlight == mode = "ret" /\ ret.some /\ ret.val.interface = "Break"

\* positions of the entries of vs named var_name
Named(vs, var_name) == {i \in 1..Len(vs) : vs[i].name = var_name}

\* the entry pushed last among the positions S of vs (ids are handed out in push order)
LatestOf(vs, S) == vs[CHOOSE i \in S : \A j \in S : vs[j].var_id <= vs[i].var_id]

\* positions of vs whose entry is still in ws
Surviving(vs, ws) ==
    {i \in 1..Len(vs) : \E j \in 1..Len(ws) : ws[j].var_id = vs[i].var_id}

-----------------------------------------------------------------------------
(* C1 *)

\* C1: once a block with scope id E has been evaluated (an if body, a while
\* iteration, a function body; ended normally, by return or by break) no
\* variable tagged E is on the stack: every variable belongs to the root or
\* to a block still being evaluated.
NoVariableOutlivesItsBlock ==
    \A i \in 1..Len(variables) : variables[i].expr_id \in ActiveScopes

-----------------------------------------------------------------------------
(* C2 *)

\* C2: a function introduced by FnDef while evaluating block E is stored with
\* scope id E and removed when E exits: every user function in the table is
\* tagged with the root or with a block still being evaluated.
NoFunctionOutlivesItsBlock ==
    \A e \in functions : e.def.cb = "user" => e.def.expr_id \in ActiveScopes

-----------------------------------------------------------------------------
(* C3 *)

\* no two entries of the stack share a var_id, none exceeds the last id handed out
DistinctVarIds ==
    /\ \A i, j \in 1..Len(variables) :
          i # j => variables[i].var_id # variables[j].var_id
    /\ \A i \in 1..Len(variables) : variables[i].var_id <= item_index

\* a step never lowers item_index, and an entry it pushes carries an id above
\* every id handed out before it
FreshVarIds ==
    /\ item_index' >= item_index
    /\ \A j \in 1..Len(variables') :
          (\A i \in 1..Len(variables) : variables[i].var_id # variables'[j].var_id)
             => /\ variables'[j].var_id > item_index
                /\ variables'[j].var_id <= item_index'

\* C3: across variable definitions, parameter bindings and module imports of
\* one run each pushed VariableDef gets a var_id above every id handed out
\* before, no two stack entries share a var_id, and no id is handed out twice.
VarIdsStrictlyIncrease == []DistinctVarIds /\ [][FreshVarIds]_vars

\* a variable was dropped and two later ones are on the stack
VarIdsWitness ==
    /\ status = "running"
    /\ Len(variables) >= 2
    /\ item_index > Len(variables)
    /\ \E i \in 1..Len(variables) : variables[i].expr_id # RootId

-----------------------------------------------------------------------------
(* C4 *)

\* get_variable_by_name returns the entry named n that was pushed last
ShadowingNow ==
    \A n \in ApiNames :
       IF Named(variables, n) = {}
       THEN get_variable_by_name(variables, n) = None
       ELSE get_variable_by_name(variables, n)
               = Some(LatestOf(variables, Named(variables, n)))

\* when a step removes the entry a name resolved to, the name resolves to the
\* latest surviving entry of that name, exactly as it was before the step
ShadowingAfterDrop ==
    \A n \in ApiNames :
       LET before == get_variable_by_name(variables, n)
           kept == Named(variables, n) \cap Surviving(variables, variables')
       IN  (before.some /\ \A j \in 1..Len(variables') :
                               variables'[j].var_id # before.val.var_id)
              => get_variable_by_name(variables', n)
                    = IF kept = {} THEN None ELSE Some(LatestOf(variables, kept))

\* C4: over any sequence of push_variable and drop_scope, get_variable_by_name(n)
\* returns the most recently pushed live variable named n, and once that entry
\* is dropped the previously pushed one is returned again, value unchanged.
ShadowingHolds == []ShadowingNow /\ [][ShadowingAfterDrop]_vars

\* an entry pushed between two same-named entries was dropped, and the later
\* of the two shadows the earlier one with another value
ShadowingWitness ==
    /\ status = "api"
    /\ Len(variables) = 2
    /\ variables[1].name = variables[2].name
    /\ variables[1].value # variables[2].value
    /\ variables[1].var_id = 1
    /\ variables[2].var_id = 3

-----------------------------------------------------------------------------
(* C5 *)

\* C5: after `let a = v; let b = &a; a = w` stringifying b yields w: the run
\* of that program followed by println(b) prints w and nothing else.
PointerSeesAssignment ==
    \A v \in Literals, w \in Literals :
       (prog = ProgPointerPrint(v, w) /\ Finished)
          => /\ status = "done"
             /\ out = <<Line(LiteralText(w))>>

-----------------------------------------------------------------------------
(* C6 *)

\* C6: once the target of a pointer was dropped, using the pointer (resolving,
\* printing, comparing, returning it) reports BrokenPointer and the run goes
\* on to its end; it never aborts.
DanglingPointerNeverAborts ==
    (prog \in {ProgDangling(use) : use \in DanglingUses} \cup {ProgDanglingReturn})
       => /\ ~Panicked
          /\ status = "done" => /\ \E i \in 1..Len(errors) : errors[i] = "BrokenPointer"
                                /\ Holds(N("d"), Num(1))

-----------------------------------------------------------------------------
(* C7 *)

\* the break being returned was executed inside a while body (the breaks of
\* the programs outside every while are the body of f in ProgStore(Break) and
\* the bodies of f in BreakingPrograms)
BreakFromWhileBody ==
    BreakInFlight /\ prog # ProgStore(Break) /\ prog \notin BreakingPrograms

\* a Break sentinel on its way up is inside a while: the activations between
\* it and the nearest while are if bodies only
BreakStaysInsideWhile ==
    BreakFromWhileBody =>
       \E w \in 1..Len(frames) :
          /\ frames[w].k = "while"
          /\ \A i \in 1..(w - 1) : frames[i].k \in {"if", "run_ast"}

\* the while that receives the sentinel stops and the block containing it
\* moves on to its next statement; an if passes the sentinel on
BreakEndsInnermostWhile ==
    (BreakFromWhileBody /\ status' = "running")
       => IF Top.k = "while"
          THEN /\ frames' = Advance(Rest)
               /\ mode' = "exec"
          ELSE /\ Top.k = "if"
               /\ frames' = Tail(Rest)
               /\ mode' = "ret"
               /\ ret' = ret

\* what the two programs with breaks leave behind
BreakOutcome ==
    /\ (prog = ProgBreak /\ Finished)
          => /\ status = "done"
             /\ ret = None
             /\ Holds(N("i"), Num(1))
             /\ Holds(N("d"), Num(1))
    /\ (prog = ProgNestedWhile /\ Finished)
          => /\ status = "done"
             /\ ret = None
             /\ Holds(N("i"), Num(2))
             /\ Holds(N("d"), Num(2))

\* C7: a break inside a while body, directly or inside ifs of it, ends exactly
\* the innermost while: the statements after that while run next, an outer
\* while keeps iterating, and the block holding the while does not return the
\* Break sentinel.
BreakEndsOnlyInnermostWhile ==
    /\ [](BreakStaysInsideWhile /\ BreakOutcome)
    /\ [][BreakEndsInnermostWhile]_vars

\* the inner while was broken out of in both iterations of the outer one
BreakWitness ==
    /\ prog = ProgNestedWhile
    /\ status = "done"
    /\ Holds(N("d"), Num(2))

-----------------------------------------------------------------------------
(* C8 *)

\* C8: m.foo(x1..xn) runs the top-level foo of the imported source with `_`
\* holding the module name and the declared parameters holding x1..xn in
\* order; a nested function is not callable through m.
ModuleCallBindsParameters ==
    \A v \in Literals, w \in Literals :
       (prog = ProgModule(v, w) /\ Finished)
          => /\ status = "done"
             /\ out = <<Line(N("m") \o LiteralText(v)),
                        Line(LiteralText(v)), Line(LiteralText(w))>>
             /\ errors = <<"FunctionNotFound">>

-----------------------------------------------------------------------------
(* C9 *)

\* C9: FunctionNotFound and VariableNotFound (undefined function, undefined
\* operand or assignment target, method call on a receiver that is not on the
\* stack) are reported and the evaluator goes on with the next statement; the
\* run is never aborted.
NotFoundNeverAborts ==
    prog = ProgErrors
       => /\ ~Panicked
          /\ status = "done" => /\ Holds(N("k"), Num(1))
                                /\ Holds(N("d"), Num(1))

-----------------------------------------------------------------------------
(* C10 *)

\* C10: a function declared with (p1, ..., pn) and called with n arguments
\* sees the i-th argument under the name pi, for every n >= 1.
ParametersBindPositionally ==
    \A v \in Literals, w \in Literals :
       (prog = ProgParams(v, w) /\ Finished)
          => /\ status = "done"
             /\ out = <<Line(LiteralText(v)), Line(LiteralText(v)), Line(LiteralText(w))>>
             /\ errors = <<>>

-----------------------------------------------------------------------------
(* C11 *)

\* what the operand of the return in ProgReturn resolves to
ReturnedBy(operand) ==
    IF operand.interface = "Number" THEN Some(operand)
    ELSE IF operand.value.r = N("i") THEN Some(Num(1))
    ELSE IF operand.value.r = N("g") THEN Some(Num(7))
    ELSE None

\* C11: once a return inside a function body has executed (here inside an if
\* inside a while of the body) no later statement of that invocation runs and
\* the call yields the resolved operand: the body hands that value to the
\* callback, "late" is never printed, and the caller goes on.
ReturnEndsTheCall ==
    \A operand \in ReturnOperands :
       prog = ProgReturn(operand)
          => /\ \A i \in 1..Len(out) : out[i] # Line(<<"l", "a", "t", "e">>)
             /\ (mode = "ret" /\ frames # <<>> /\ Top.k = "cb")
                   => ret = ReturnedBy(operand)
             /\ Finished => /\ status = "done"
                            /\ out = <<Line(<<"e", "n", "d">>)>>

-----------------------------------------------------------------------------
(* C12 *)

\* the number an operand of a loop condition stands for in the current stack
NumberOf(operand) ==
    IF operand.interface = "Number" THEN operand.value.n
    ELSE get_variable_by_name(variables, operand.value.r).val.value.n

\* the condition holds in the current stack
HoldsNow(condition) ==
    IF condition.relation = "NotEqualCondition"
    THEN NumberOf(condition.left) # NumberOf(condition.right)
    ELSE NumberOf(condition.left) = NumberOf(condition.right)

\* a while has evaluated its conditions and is about to run its body or stop
WhileDeciding ==
    /\ status = "running"
    /\ mode = "exec"
    /\ frames # <<>>
    /\ Top.k = "cond"
    /\ Top.stmt.type = "WhileDef"
    /\ Top.i > Len(Conditions)

\* the body runs iff every condition holds; otherwise the loop is over and the
\* block containing it goes on with its next statement
WhileRunsIffAllHold ==
    (WhileDeciding /\ status' = "running")
       => IF \A c \in 1..Len(Conditions) : HoldsNow(Conditions[c])
          THEN /\ Len(frames') = Len(frames) + 1
               /\ frames'[1].k = "run_ast"
               /\ frames'[1].body = Top.stmt.body
               /\ frames'[2].k = "while"
          ELSE frames' = Advance(Rest)

\* the lines a loop printing i for i = 0 .. count-1 leaves, then "end"
CountLines(count) ==
    [k \in 1..count |-> Line(NumToStr(k - 1))] \o <<Line(<<"e", "n", "d">>)>>

\* the counting loops run their body exactly N times and then terminate
CountingOutcome ==
    /\ \A count \in 0..MaxCount :
          (prog = ProgCount(count) /\ Finished)
             => /\ status = "done"
                /\ out = CountLines(count)
                /\ Holds(N("i"), Num(count))
    /\ (prog = ProgTwoConditions /\ Finished)
          => /\ status = "done"
             /\ out = CountLines(2)
             /\ Holds(N("i"), Num(2))
             /\ Holds(N("j"), Num(3))

\* C12: a while runs its body in an iteration iff every condition of its list
\* holds at the start of the iteration and ends at the first iteration where
\* one is false; `let i = 0  while i != N { i.mut_sum(1) }` runs the body
\* exactly N times and terminates.
WhileRunsWhileAllHold == []CountingOutcome /\ [][WhileRunsIffAllHold]_vars

\* the loop with two conditions stopped when its second condition failed
WhileWitness ==
    /\ prog = ProgTwoConditions
    /\ status = "done"
    /\ Holds(N("i"), Num(2))
    /\ Holds(N("j"), Num(3))

-----------------------------------------------------------------------------
(* C13 *)

\* the stringified form of an operand of ProgCompare when a holds w
OperandText(operand, w) ==
    IF operand.interface = "Reference" THEN LiteralText(w) ELSE LiteralText(operand)

\* what ProgCompare prints when == and != compare the stringified forms
CompareLines(w, left, right) ==
    <<Line(IF OperandText(left, w) = OperandText(right, w)
           THEN <<"e", "q">> ELSE <<"n", "e">>),
      Line(<<"e", "n", "d">>)>>

\* C13: for operands that both resolve, `l == r` is true exactly when the
\* stringified forms of l and r are equal and `l != r` exactly when they
\* differ, whatever the operand types: Number 1 equals String "1", Boolean true
\* equals String "true", a pointer compares as the stringified value of its
\* target.
ConditionComparesStrings ==
    Finished =>
       \A v \in CompareValues, w \in CompareValues,
          left \in CompareOperands, right \in CompareOperands :
          prog = ProgCompare(v, w, left, right)
             => /\ status = "done"
                /\ out = CompareLines(w, left, right)

\* the same for a variable that keeps the kind it was defined with
ConditionComparesStringsSameKind ==
    Finished =>
       \A v \in CompareValues, w \in CompareValues,
          left \in CompareOperands, right \in CompareOperands :
          (prog = ProgCompare(v, w, left, right) /\ v.interface = w.interface)
             => /\ status = "done"
                /\ out = CompareLines(w, left, right)

-----------------------------------------------------------------------------
(* C14 *)

\* the kinds of concrete primitive
PrimitiveKinds == {"Boolean", "Number", "String", "Pointer"}

\* C14: in every reachable state every variable on the stack stores a concrete
\* primitive of kind Boolean, Number, String or Pointer: never an unresolved
\* Reference, a FnCall or Expression carrier, or a Break/WhileDef sentinel.
StoredValuesArePrimitive ==
    \A i \in 1..Len(variables) :
       /\ variables[i].val_type \in PrimitiveKinds
       /\ variables[i].value.t \in PrimitiveKinds

\* the result of a call that returned its pointer parameter was stored twice
StoredCallResult ==
    /\ prog = ProgStore(ReturnStatement(Ref(N("q"))))
    /\ status = "done"
    /\ Holds(N("x"), Num(1))
    /\ Holds(N("y"), Num(1))

-----------------------------------------------------------------------------
(* C15 *)

\* C15: functions are lexically scoped: a name of a function body that is
\* neither a parameter nor a local resolves to the binding visible where the
\* function was defined (g prints the x of the top level, not the x of its
\* caller f), and a local of the calling function is not visible inside the
\* callee (with no x at the top level g never prints the caller's x).
LexicalScoping ==
    /\ \A w \in Literals :
          prog = ProgCallerLocal(w)
             => \A i \in 1..Len(out) : out[i] # Line(LiteralText(w))
    /\ Finished =>
          \A v \in Literals, w \in Literals :
             prog = ProgDefinitionSite(v, w)
                => /\ status = "done"
                   /\ out = <<Line(LiteralText(v)), Line(<<"e", "n", "d">>)>>

-----------------------------------------------------------------------------
(* C16 *)

\* get_tokens has returned
Lexed == status = "tokens"

\* the keyword/symbol table as pairs <<lexeme, kind>>
KeywordTable ==
    {<<<<"l", "e", "t">>, "VarDef">>, <<<<"=">>, "LeftAssign">>,
     <<<<"(">>, "OpenParent">>, <<<<")">>, "CloseParent">>,
     <<<<"f", "n">>, "FnDef">>, <<<<"{">>, "OpenBlock">>, <<<<"}">>, "CloseBlock">>,
     <<<<"i", "f">>, "IfConditional">>, <<<<"=", "=">>, "EqualCondition">>,
     <<<<"r", "e", "t", "u", "r", "n">>, "Return">>, <<<<".">>, "PropAccess">>,
     <<<<",">>, "CommaDelimiter">>, <<<<"w", "h", "i", "l", "e">>, "WhileDef">>,
     <<<<"!", "=">>, "NotEqualCondition">>,
     <<<<"i", "m", "p", "o", "r", "t">>, "Import">>,
     <<<<"f", "r", "o", "m">>, "FromModule">>,
     <<<<"b", "r", "e", "a", "k">>, "Break">>}

\* every token has the kind the table gives its lexeme, Reference when it has none
KindsFollowTable ==
    \A i \in 1..Len(created_tokens) :
       LET token == created_tokens[i]
           rows == {row \in KeywordTable : row[1] = token.value}
       IN  IF rows = {} THEN token.ast_type = "Reference"
           ELSE \A row \in rows : token.ast_type = row[2]

\* a text with the characters of chars removed
RECURSIVE Without(_, _)
Without(text, chars) ==
    IF text = <<>> THEN <<>>
    ELSE (IF Head(text) \in chars THEN <<>> ELSE <<Head(text)>>) \o Without(Tail(text), chars)

\* the lexemes of the tokens, one after the other
RECURSIVE Lexemes(_)
Lexemes(tokens) ==
    IF tokens = <<>> THEN <<>> ELSE Head(tokens).value \o Lexemes(Tail(tokens))

\* a source without string literals and comments
PlainSource == \A i \in 1..Len(code) : code[i] \notin {"\"", "/"}

\* the tokens are the source in source order with the whitespace left out, and
\* ( ) , . are tokens of their own
LexemesInSourceOrder ==
    /\ Lexemes(created_tokens) = Without(code, {" ", "\n"})
    /\ \A i \in 1..Len(created_tokens) :
          LET value == created_tokens[i].value
          IN  /\ value # <<>>
              /\ \A k \in 1..Len(value) :
                    value[k] \in {"(", ")", ",", "."} => Len(value) = 1

\* the tokens tests/tokenizer.rs expects for CODE
TestTokens ==
    <<Token("FnDef", <<"f", "n">>, 1), Token("Reference", <<"x">>, 1),
      Token("OpenParent", <<"(">>, 1), Token("Reference", <<"b">>, 1),
      Token("CloseParent", <<")">>, 1), Token("OpenBlock", <<"{">>, 1),
      Token("VarDef", <<"l", "e", "t">>, 1), Token("Reference", <<"c">>, 1),
      Token("LeftAssign", <<"=">>, 1), Token("Reference", <<"b">>, 1),
      Token("Return", <<"r", "e", "t", "u", "r", "n">>, 1), Token("Reference", <<"c">>, 1),
      Token("CloseBlock", <<"}">>, 1), Token("Reference", <<"x">>, 1),
      Token("OpenParent", <<"(">>, 1), Token("Reference", <<"4">>, 1),
      Token("CloseParent", <<")">>, 1)>>

\* C16: get_tokens yields the lexemes of the source in source order, each with
\* the kind the keyword/symbol table assigns: ( ) , . are tokens of their own
\* even without whitespace around them, keywords get their keyword kinds,
\* every other lexeme is a Reference token, whitespace produces no token.
TokensFollowSource ==
    Lexed => /\ KindsFollowTable
             /\ PlainSource => LexemesInSourceOrder
             /\ code = TestCode => created_tokens = TestTokens

\* the sample of the tokenizer test has been lexed
TokensWitness ==
    /\ Lexed
    /\ code = TestCode
    /\ Len(created_tokens) = 17

-----------------------------------------------------------------------------
(* C17 *)

\* the first characters of the line that are not whitespace are //
CommentLine(line) == starts_with(trim_start(line), <<"/", "/">>)

\* the line holds nothing but whitespace
BlankLine(line) == trim_start(line) = <<>>

\* every line of the source is a comment or blank, and one is a comment
OnlyComments ==
    LET raw_lines == split_newline(code)
    IN  /\ \A i \in 1..Len(raw_lines) : CommentLine(raw_lines[i]) \/ BlankLine(raw_lines[i])
        /\ \E i \in 1..Len(raw_lines) : CommentLine(raw_lines[i])

\* C17: a source line whose first non-whitespace characters are // produces no
\* tokens, whether or not the // is preceded by indentation: a source made of
\* such lines (and blank ones) yields no token at all.
CommentLinesGiveNoTokens ==
    (Lexed /\ OnlyComments) => created_tokens = <<>>

\* the same for comments that start in the first column
UnindentedCommentLinesGiveNoTokens ==
    (Lexed /\ OnlyComments
           /\ \A i \in 1..Len(split_newline(code)) :
                 CommentLine(split_newline(code)[i])
                    => starts_with(split_newline(code)[i], <<"/", "/">>))
       => created_tokens = <<>>

-----------------------------------------------------------------------------
(* C18 *)

\* the tokens whose line field is n
TokensOfLine(n) == SelectSeq(created_tokens, LAMBDA token : token.line = n)

\* the tokens carrying line n are the lexemes of the n-th line of the source
LinesMatch ==
    LET raw_lines == split_newline(code)
    IN  /\ \A i \in 1..Len(created_tokens) : created_tokens[i].line \in 1..Len(raw_lines)
        /\ \A n \in 1..Len(raw_lines) :
              Lexemes(TokensOfLine(n)) =
                 IF CommentLine(raw_lines[n]) THEN <<>> ELSE Without(raw_lines[n], {" "})

\* every comment of the source starts in the first column, and it has no string literal
PlainComments ==
    /\ \A i \in 1..Len(code) : code[i] # "\""
    /\ \A n \in 1..Len(split_newline(code)) :
          CommentLine(split_newline(code)[n])
             => starts_with(split_newline(code)[n], <<"/", "/">>)

\* C18: every token's line field equals the 1-based number of the source line
\* the lexeme was read from, for every source text, including sources in which
\* comment lines or blank lines precede the token's line.
TokenLinesAreSourceLines ==
    (Lexed /\ PlainComments) => LinesMatch

\* the same for sources without comment lines
TokenLinesWithoutComments ==
    (Lexed /\ PlainSource) => LinesMatch

-----------------------------------------------------------------------------
(* C19 *)

\* sum or mut_sum is about to be called on a Number variable with a Number addend
NumberMethodCalled(cb) ==
    /\ status = "running"
    /\ mode = "exec"
    /\ frames # <<>>
    /\ Top.k = "call"
    /\ Top.rest = <<>>
    /\ Top.function.cb = cb
    /\ Len(Top.arguments) = 2
    /\ Top.arguments[2].interface = "Number"
    /\ get_variable_by_name(variables, Top.call.reference_to.val).some
    /\ get_variable_by_name(variables, Top.call.reference_to.val).val.val_type = "Number"
    /\ get_variable_by_name(variables, Top.call.reference_to.val).val.value.t = "Number"

\* v + k for the receiver and the addend of the call about to be made
SumOfCall ==
    get_variable_by_name(variables, Top.call.reference_to.val).val.value.n
       + Top.arguments[2].value.n

\* sum hands back v + k and changes no variable
SumStep ==
    (NumberMethodCalled("sum") /\ Top.site = "resolve")
       => /\ ret' = Some(Num(SumOfCall))
          /\ mode' = "ret"
          /\ variables' = variables

\* mut_sum hands back nothing and leaves v + k in the receiver
MutSumStep ==
    (NumberMethodCalled("mut_sum") /\ Top.site = "stmt")
       => /\ errors' = errors
          /\ status' = "running"
          /\ Len(variables') = Len(variables)
          /\ get_variable_by_name(variables', Top.call.reference_to.val).val.value
                = NumberVal(SumOfCall)
          /\ \A i \in 1..Len(variables) :
                variables[i].var_id
                   # get_variable_by_name(variables, Top.call.reference_to.val).val.var_id
                   => variables'[i] = variables[i]

\* the run of ProgSum prints v + k, v and v + k
SumOutcome ==
    Finished =>
       \A v \in 0..MaxNumber, k \in 0..MaxNumber :
          prog = ProgSum(v, k)
             => /\ status = "done"
                /\ errors = <<>>
                /\ out = <<Line(NumToStr(v + k)), Line(NumToStr(v)), Line(NumToStr(v + k))>>

-----------------------------------------------------------------------------
(* C20 *)

\* one left-to-right pass over the template: the i-th {} gives way to the i-th
\* text of args, what was put in is not looked at again
RECURSIVE SinglePass(_, _)
SinglePass(template, args) ==
    IF template = <<>> THEN <<>>
    ELSE IF args # <<>> /\ starts_with(template, <<"{", "}">>)
         THEN Head(args) \o SinglePass(SubSeq(template, 3, Len(template)), Tail(args))
         ELSE <<Head(template)>> \o SinglePass(Tail(template), args)

\* C20: format(template, a1..an) replaces the i-th {} of the original template
\* with the stringified ai in one left-to-right pass: text put in for an
\* earlier argument is never scanned again, so an argument whose own text
\* contains {} is not consumed as the placeholder of a later argument.
FormatIsSinglePass ==
    Finished =>
       \A template \in FormatTemplates, a \in FormatArgs, b \in FormatArgs :
          prog = ProgFormat(template, a, b)
             => /\ status = "done"
                /\ out = <<Line(SinglePass(template, <<LiteralText(a), LiteralText(b)>>))>>

\* the same for arguments whose text holds no brace
FormatOfPlainArguments ==
    Finished =>
       \A template \in FormatTemplates, a \in {Str(<<"x">>), Num(1)}, b \in {Str(<<"x">>), Num(1)} :
          prog = ProgFormat(template, a, b)
             => /\ status = "done"
                /\ out = <<Line(SinglePass(template, <<LiteralText(a), LiteralText(b)>>))>>

-----------------------------------------------------------------------------
(* C21 *)

-----------------------------------------------------------------------------
(* C22 *)

\* Ops::VarAssign is about to call modify_var for a name no variable has
ModifyingMissingName ==
    /\ status = "running"
    /\ mode = "ret"
    /\ frames # <<>>
    /\ Top.k = "VarAssign"
    /\ ret.some
    /\ \A i \in 1..Len(variables) :
          variables[i].name # (IF StartsWithAmp(Top.var_name) THEN Tail(Top.var_name)
                               ELSE Top.var_name)

\* the call reports VariableNotFound and changes nothing of the stack
ModifyMissingStep ==
    ModifyingMissingName
       => /\ errors' = Append(errors, "VariableNotFound")
          /\ variables' = variables
          /\ functions' = functions
          /\ item_index' = item_index

\* the assignments to the dropped b and to the never defined c are reported,
\* a is untouched
ModifyMissingOutcome ==
    Finished =>
       \A v \in Literals :
          prog = ProgAssignMissing(v)
             => /\ status = "done"
                /\ errors = <<"VariableNotFound", "VariableNotFound">>
                /\ out = <<Line(<<"1">>)>>
                /\ Len(variables) = 1
                /\ Holds(N("a"), Num(1))

\* C22: modify_var(name, v) called when no variable named name is on the stack
\* reports VariableNotFound and leaves the whole stack (all variables, all
\* functions and the id counter) unchanged.
ModifyMissingReports == []ModifyMissingOutcome /\ [][ModifyMissingStep]_vars

\* both assignments to missing names have been reported
ModifyMissingWitness ==
    /\ prog = ProgAssignMissing(Num(2))
    /\ status = "done"
    /\ errors = <<"VariableNotFound", "VariableNotFound">>

-----------------------------------------------------------------------------
(* C23 *)

\* C23: assigning to a variable that holds a pointer whose target has been
\* dropped from the stack is a dereference of a dangling pointer and raises
\* BrokenPointer; the assignment does not silently succeed as a no-op.
AssignThroughDanglingReports ==
    Finished =>
       \A v \in Literals :
          prog = ProgAssignDangling(v)
             => \E i \in 1..Len(errors) : errors[i] = "BrokenPointer"

-----------------------------------------------------------------------------
(* C24 *)

\* C24: in every reachable state each variable's stored type tag agrees with
\* the variant of its stored value; in particular after an assignment a = v
\* with v of another type than a's current value the tag of a is the type of
\* v, and stringifying a afterwards succeeds.
TypeTagsAgree ==
    /\ \A i \in 1..Len(variables) : variables[i].val_type = variables[i].value.t
    /\ status # "panic_downcast"

-----------------------------------------------------------------------------
(* C25 *)

\* C25: when two functions with the same name have been pushed,
\* get_function_by_name returns the later-pushed one; this includes a user
\* function that redefines a built-in name such as print: the call of the
\* twice defined f runs the second definition, the call of the redefined
\* print runs the user's function.
LaterFunctionShadows ==
    Finished =>
       /\ prog = ProgRedefine => out = <<Line(<<"t", "w", "o">>)>>
       /\ prog = ProgRedefinePrint => out = <<Line(<<"m", "i", "n", "e">>)>>

-----------------------------------------------------------------------------
(* C26 *)

\* the step took something off the stack
DropStep ==
    \/ Len(variables') < Len(variables)
    \/ functions' # functions /\ functions' \subseteq functions

\* the positions of the variables that do not belong to scope id
PositionsKept(id) == {i \in 1..Len(variables) : variables[i].expr_id # id}

\* exactly the entries of one scope went: the other variables are there
\* unchanged and in their order, the other functions are there, the counter is
\* as it was and the built-ins still resolve
DropRemovesOneScope ==
    DropStep =>
       \E id \in ApiScopes :
          /\ Len(variables') = Cardinality(PositionsKept(id))
          /\ \A j \in 1..Len(variables') :
                variables'[j] =
                   variables[CHOOSE i \in PositionsKept(id) :
                                Cardinality({k \in PositionsKept(id) : k <= i}) = j]
          /\ functions' = {e \in functions : e.def.expr_id # id}
          /\ item_index' = item_index
          /\ \A b \in Builtins : \E e \in functions' : e.def.name = b[1] /\ e.def.cb = b[2]

\* C26: drop_scope(E) removes exactly the variables and functions whose scope
\* id equals E: every other variable keeps its name, value, type, var_id and
\* relative order, every other function stays, the id counter is unchanged,
\* and for E other than the global scope id the five built-ins remain
\* resolvable by name.
DropScopeRemovesExactly == [][DropRemovesOneScope]_vars

\* a scope was dropped while a variable and a function of the other scope stayed
DropScopeWitness ==
    /\ status = "api"
    /\ item_index > Len(variables)
    /\ Len(variables) >= 1
    /\ \E e \in functions : e.def.cb = "user"
    /\ \A i \in 1..Len(variables) : variables[i].expr_id = RunId(2)
    /\ \A e \in functions : e.def.cb = "user" => e.def.expr_id = RunId(2)

-----------------------------------------------------------------------------
(* C27 *)

\* a VarDef that received nothing from resolve_ref leaves the variables and
\* the counter alone
UnresolvedVarDefStep ==
    (Receiving("VarDef") /\ ~ret.some) =>
        variables' = variables /\ item_index' = item_index

\* between the statements that follow let a = v the stack holds a alone, with
\* the value v and the last id that was taken
OnlyFirstDefinitionStands ==
    \A v \in Literals :
       (/\ prog = ProgVarDefFails(v)
        /\ Len(frames) = 1
        /\ Top.k = "run_ast"
        /\ Top.pc >= 2
        /\ mode = "exec")
       => /\ Len(variables) = 1
          /\ variables[1].name = N("a")
          /\ variables[1].val_type = v.interface
          /\ variables[1].value = v.value
          /\ variables[1].var_id = item_index
          /\ item_index = reseve_index(StackNew(RootId).item_index)

-----------------------------------------------------------------------------
(* C28 *)

\* run_ast is between two statements of body, the next one being number pc
Between(body, pc) ==
    /\ frames # <<>>
    /\ Top.k = "run_ast"
    /\ Top.body = body
    /\ Top.pc = pc
    /\ mode = "exec"

\* the variable a lookup of name finds stores value
Stores(name, value) ==
    /\ get_variable_by_name(variables, name).some
    /\ get_variable_by_name(variables, name).val.value = value

\* the three families of programs with a copy in them
CopyPrograms == {ProgCopy(v, w) : v \in Literals, w \in Literals}
CopySumPrograms == {ProgCopySum(k) : k \in 1..MaxNumber}
CopyParamPrograms == {ProgCopyParam(v, w) : v \in Literals, w \in Literals}

\* let b = a followed by assignments to a and to b
CopySurvivesAssignment ==
    prog \in CopyPrograms =>
       LET v == prog[1].assignment
           w == prog[3].assignment
       IN  /\ Between(prog, 3) => Stores(N("a"), v.value) /\ Stores(N("b"), v.value)
           /\ Between(prog, 4) => Stores(N("a"), w.value) /\ Stores(N("b"), v.value)
           /\ Between(prog, 5) => Stores(N("a"), w.value) /\ Stores(N("b"), NumberVal(3))

\* let b = a followed by a.mut_sum(k) and b.mut_sum(k)
CopySurvivesMutSum ==
    prog \in CopySumPrograms =>
       LET k == prog[3].arguments[1].value.n
       IN  /\ Between(prog, 4) =>
                 Stores(N("a"), NumberVal(1 + k)) /\ Stores(N("b"), NumberVal(1))
           /\ Between(prog, 5) =>
                 Stores(N("a"), NumberVal(1 + k)) /\ Stores(N("b"), NumberVal(1 + k))

\* f(a) with the parameter p, p and a assigned in the body
ParameterIsCopy ==
    prog \in CopyParamPrograms =>
       LET v == prog[1].assignment
           body == prog[2].body
           w == body[1].assignment
       IN  /\ Between(body, 1) => Stores(N("a"), v.value) /\ Stores(N("p"), v.value)
           /\ Between(body, 2) => Stores(N("a"), v.value) /\ Stores(N("p"), w.value)
           /\ Between(body, 3) => Stores(N("a"), NumberVal(3)) /\ Stores(N("p"), w.value)
           /\ Between(prog, 4) =>
                 Stores(N("a"), NumberVal(3)) /\ ~get_variable_by_name(variables, N("p")).some

-----------------------------------------------------------------------------
(* C29 *)

\* after the fourth statement of ProgThrough t has the value and the type of
\* v, b still points to t, and nothing else moved
WrittenThrough(how) ==
    (/\ prog \in {ProgThrough(how, target, v) : target \in ThroughTargets, v \in Literals}
     /\ Between(prog, 5))
    => LET v == prog[4].assignment
           t == get_variable_by_name(variables, N("t")).val
           b == get_variable_by_name(variables, N("b")).val
       IN  /\ t.value = v.value
           /\ t.val_type = v.interface
           /\ b.value = PointerVal(t.var_id)
           /\ item_index = IF how = "defined" THEN 3 ELSE 2
           /\ Len(variables) = item_index
           /\ how = "defined" => Stores(N("c"), NumberVal(2))

\* b defined as let b = &t: both spellings write t
DefinedPointerWritesThrough == WrittenThrough("defined")

\* C29: for a variable b that holds a pointer to a live variable t other than
\* b, the assignments `&b = v` and `b = v` have the same effect: t's value and
\* type become those of v, while b's own stored pointer, every other variable
\* and the id counter are unchanged.
AssignWritesThroughPointer == WrittenThrough("defined") /\ WrittenThrough("assigned")

\* the assignment through b ran in both spellings
AssignThroughWitness ==
    /\ status = "done"
    /\ \E target \in ThroughTargets, v \in Literals :
          /\ prog = ProgThrough("defined", target, v)
          /\ v.interface = "String"
          /\ Stores(N("t"), v.value)

-----------------------------------------------------------------------------
(* C30 *)

\* the run of ProgUnusedResult with an argument of args ended having printed
\* the next statement's line, with the diagnostic exactly when f was called
UnusedResultOutcome(args) ==
    (/\ Finished
     /\ prog \in {ProgUnusedResult(callee, arg) : callee \in UnusedCallees, arg \in args})
    => /\ status = "done"
       /\ out = <<<<"x", "\n">>>>
       /\ errors = IF prog[7].fn_name = N("f") THEN <<"ReturnedValueNotUsed">> ELSE <<>>

\* arguments that stringify: the diagnostic is reported and the run goes on
UnusedResultOfLiveArguments == UnusedResultOutcome(UnusedArgs \ {Ref(N("p"))})

\* C30: a function call in statement position whose callee returns a value
\* reports the advisory ReturnedValueNotUsed diagnostic and the evaluator then
\* executes the next statement of the block; a statement-position call whose
\* callee returns None reports nothing.
UnusedResultIsReported == UnusedResultOutcome(UnusedArgs)

-----------------------------------------------------------------------------
(* C34 *)

\* the call of two has resolved its arguments and is about to run the callee
CallingTwo ==
    /\ frames # <<>>
    /\ Top.k = "call"
    /\ Top.rest = <<>>
    /\ mode = "exec"
    /\ Top.function.name = <<"t", "w", "o">>

\* the values handed to two are the call's arguments, each in its place, for
\* the first arguments of firsts
ArgumentsInPlace(firsts) ==
    (/\ prog \in {ProgArgOrder(first, second) : first \in firsts, second \in Literals}
     /\ CallingTwo)
    => /\ Len(Top.arguments) = 2
       /\ Top.arguments[2] = prog[2].arguments[2]
       /\ prog[2].arguments[1] \in Literals => Top.arguments[1] = prog[2].arguments[1]

\* with a first argument that resolves, each value is in its place
ArgumentsArriveWhenAllResolve == ArgumentsInPlace(ArgOrderFirsts \ {Ref(N("u"))})

\* C34: the callee of a call receives one value per call-site argument, in
\* call-site order: the i-th value received (after the implicit receiver name
\* of a method call) is the resolved i-th argument, also when some earlier
\* argument of the same call fails to resolve.
ArgumentsArriveInPlace == ArgumentsInPlace(ArgOrderFirsts)

-----------------------------------------------------------------------------
(* C35 *)

\* the run of ProgArity with the arguments args ended normally: the body ran,
\* its scope is gone and the statement after the call ran
ArityOutcome(argss) ==
    (Finished /\ prog \in {ProgArity(args) : args \in argss})
    => /\ status = "done"
       /\ out = <<<<"i", "n", "\n">>, <<"x", "\n">>>>
       /\ variables = <<>>

\* as many arguments as parameters, or fewer
FewerArgumentsAreTolerated == ArityOutcome(ArityArguments \ {<<Num(1), Num(2)>>})

\* C35: calling a user function with a number of arguments different from its
\* number of declared parameters does not abort the interpreter: surplus
\* arguments are ignored, parameters without an argument stay unbound, and
\* the body is still evaluated in a fresh scope that is dropped afterwards.
ArityMismatchIsTolerated == ArityOutcome(ArityArguments)

-----------------------------------------------------------------------------
(* C36 *)

\* the variable at position i stores a pointer to the variable at position j
PointsTo(i, j) ==
    /\ variables[i].value.t = "Pointer"
    /\ variables[j].var_id = variables[i].value.p

\* the positions reached from position i by following n pointers or fewer,
\* one at least
RECURSIVE ReachedWithin(_, _)
ReachedWithin(i, n) ==
    LET direct == {j \in 1..Len(variables) : PointsTo(i, j)}
    IN  IF n <= 1 THEN direct
        ELSE direct \cup UNION {ReachedWithin(j, n - 1) : j \in direct}

\* C36: after any sequence of definitions and assignments, the points-to
\* relation between variables on the stack is acyclic (no variable's pointer
\* chain leads back to itself, and no variable points to itself), so
\* stringifying or dereferencing any pointer terminates after finitely many
\* hops.
PointsToIsAcyclic ==
    /\ \A i \in 1..Len(variables) : i \notin ReachedWithin(i, Len(variables))
    /\ status # "panic_stack_overflow"

-----------------------------------------------------------------------------
(* C37 *)

\* a Break on its way out of the body of f reaches the callback of f, or the
\* if of f's body that passes it on, and nothing else
BreakStopsAtCallback ==
    (prog \in BreakingPrograms /\ BreakInFlight) => Top.k \in {"cb", "if"}

\* no variable stores the sentinel
NoBreakStored ==
    prog \in BreakingPrograms =>
       \A i \in 1..Len(variables) : variables[i].val_type # "Break"

\* the caller's while ran both iterations and the statement after it ran
CallerLoopCompletes ==
    (prog \in BreakingPrograms /\ Finished)
    => /\ status = "done"
       /\ out = <<<<"1", "\n">>, <<"2", "\n">>, <<"e", "n", "d", "\n">>>>
       /\ ~get_variable_by_name(variables, N("r")).some

\* C37: a `break` executed inside the body of a called function, outside any
\* while of that body, ends only that function invocation: the Break sentinel
\* is not returned to the caller, so it never terminates a while loop of the
\* caller and is never stored by a `let` that calls the function.
BreakEndsOnlyTheCallee == BreakStopsAtCallback /\ NoBreakStored /\ CallerLoopCompletes

\* the caller's loop went on after f broke, in a run of each body
BreakInCalleeWitness ==
    /\ status = "done"
    /\ prog \in BreakingPrograms
    /\ prog[2].body[1].type = "IfConditional"
    /\ Len(out) = 3


-----------------------------------------------------------------------------
(* C31 *)

\* no dispatch step leaves the cursor where it was: the PropAccess arm does
\* when the `.` is not followed by `name (`, and the loop then never ends
DispatchAdvances == status # "loops_forever"

\* no arm reads tokens[i] with i outside the list
CursorStaysInside == status # IndexPanic

\* C31: move_tokens_into_ast terminates on every finite token list: every
\* dispatch step, the one for a `.` not followed by `name (` included, advances
\* the cursor, and no token index past the end of the list is read.
ParseBlockTerminates == DispatchAdvances /\ CursorStaysInside


-----------------------------------------------------------------------------
(* C32 *)

\* the call a `let` statement has as its operand: the call of the definition
\* of `_` in the expression that get_assignment_token_fn wraps it in
OperandCall(statement) == statement.assignment.value.body[1].assignment.value.call

\* a call in statement position takes its arguments with get_tokens_in_group_of,
\* which counts the nesting: `f(g(1), 2)` is a call to f with two arguments
StatementCallIsBalanced ==
    (created_tokens = Words(NestedStatementWords) /\ status = "parsed")
    => /\ Top.body[1].type = "FnCall"
       /\ Top.body[1].fn_name = <<"f">>
       /\ Len(Top.body[1].arguments) = 2

\* C32: a call used as an operand takes its arguments from the balanced
\* `( ... )` group: a nested call among the arguments does not end the outer
\* list at the nested call's `)`, so `let r = f(g(1), 2)` yields a call to f
\* with two arguments (and nothing of that statement is left to be parsed as
\* statements of its own).
OperandCallIsBalanced ==
    (created_tokens = Words(NestedOperandWords) /\ Top.token_n > 0
     /\ status \in {"parsing", "parsed"})
    => /\ Top.body[1].type = "VarDef"
       /\ OperandCall(Top.body[1]).fn_name = <<"f">>
       /\ Len(OperandCall(Top.body[1]).arguments) = 2


-----------------------------------------------------------------------------
(* C33 *)

RECURSIVE Anonymous(_)

\* an operand with the ids of its expressions erased: Expression::new draws a
\* fresh Uuid for each, so two parses agree only up to these ids
AnonymousBox(box) ==
    IF box.interface = "Expression"
    THEN ExpressionBox([i \in DOMAIN box.value.body |-> Anonymous(box.value.body[i])],
                       ParseId(0))
    ELSE IF box.interface = "FnCall"
    THEN FnCallBox(Anonymous(box.value.call))
    ELSE box

\* a statement with the ids of its expressions erased
Anonymous(op) ==
    CASE op.type \in {"VarDef", "VarAssign"} ->
            [op EXCEPT !.assignment = AnonymousBox(@)]
      [] op.type = "FnCall" ->
            [op EXCEPT !.arguments = [i \in DOMAIN @ |-> AnonymousBox(@[i])]]
      [] op.type = "Return" ->
            [op EXCEPT !.value = AnonymousBox(@)]
      [] op.type = "FnDef" ->
            [op EXCEPT !.body = [i \in DOMAIN @ |-> Anonymous(@[i])]]
      [] op.type \in {"WhileDef", "IfConditional"} ->
            [op EXCEPT !.body = [i \in DOMAIN @ |-> Anonymous(@[i])],
                       !.conditions = [i \in DOMAIN @ |->
                                          [@[i] EXCEPT !.left = AnonymousBox(@),
                                                       !.right = AnonymousBox(@)]]]
      [] OTHER -> op

AnonymousBody(body) == [i \in DOMAIN body |-> Anonymous(body[i])]

\* the inputs `import m from "p"` followed by statements
ImportInputs == {Words(ImportWords \o rest) : rest \in ImportRests}

\* the file is missing and the import arm has run
ImportSkipped ==
    /\ created_tokens \in ImportInputs
    /\ ~Top.found
    /\ Top.token_n > 0
    /\ status \in {"parsing", "parsed"}

\* the arm reports ModuleNotFound, and no statement of the block is a Module
MissingModuleIsReported ==
    ImportSkipped
    => /\ errors # <<>> /\ errors[1] = "ModuleNotFound"
       /\ Top.token_n >= 4
       /\ \A i \in 1..Len(Top.body) : Top.body[i].type # "Module"

\* what the parser makes of the statements after the import is what it makes
\* of these statements alone
RestParsedAsAlone ==
    (ImportSkipped /\ status = "parsed")
    => LET rest == SubSeq(created_tokens, 5, Len(created_tokens))
           alone == move_tokens_into_ast(rest, FALSE)
       IN  /\ alone.status = ""
           /\ errors = <<"ModuleNotFound">> \o alone.errs
           /\ AnonymousBody(Top.body) = AnonymousBody(alone.body)

\* C33: when the source of an imported module cannot be loaded, the parser
\* reports ModuleNotFound, appends no Module node to the block, and goes on
\* with the token after the path token, so that the statements after the
\* import are parsed as if the import were absent.
MissingModuleIsSkipped == MissingModuleIsReported /\ RestParsedAsAlone

\* `import m from "p"  let a = f(1)` was parsed with the file of m missing
MissingModuleWitness ==
    /\ ImportSkipped
    /\ status = "parsed"
    /\ Len(created_tokens) = 11
    /\ Len(Top.body) = 1
    /\ Top.body[1].type = "VarDef"


-----------------------------------------------------------------------------
(* C38 *)

\* the kinds run_ast's `match operation.get_type()` has an arm for; any other
\* kind reaches `_ => panic!("Unhandled code operation")`
HandledOps ==
    {"Break", "Module", "WhileDef", "Return", "IfConditional", "FnDef", "VarDef",
     "VarAssign", "FnCall"}

RECURSIVE StatementKinds(_), OperandKinds(_)

\* the kinds of the statements run_ast meets when an operand is resolved: those
\* of the body of an Expression, and those in the arguments of an operand call
OperandKinds(box) ==
    IF box.interface = "Expression"
    THEN UNION {StatementKinds(box.value.body[i]) : i \in DOMAIN box.value.body}
    ELSE IF box.interface = "FnCall"
    THEN UNION {OperandKinds(box.value.call.arguments[i]) :
                   i \in DOMAIN box.value.call.arguments}
    ELSE {}

\* the kinds of a statement and of every statement nested in it
StatementKinds(op) ==
    {op.type}
    \cup CASE op.type \in {"VarDef", "VarAssign"} -> OperandKinds(op.assignment)
           [] op.type = "Return" -> OperandKinds(op.value)
           [] op.type = "FnCall" ->
                 UNION {OperandKinds(op.arguments[i]) : i \in DOMAIN op.arguments}
           [] op.type = "FnDef" ->
                 UNION {StatementKinds(op.body[i]) : i \in DOMAIN op.body}
           [] op.type = "Module" ->
                 UNION {StatementKinds(op.functions[i]) : i \in DOMAIN op.functions}
           [] op.type \in {"WhileDef", "IfConditional"} ->
                 UNION {StatementKinds(op.body[i]) : i \in DOMAIN op.body}
                 \cup UNION {OperandKinds(op.conditions[i].left)
                             \cup OperandKinds(op.conditions[i].right) :
                                i \in DOMAIN op.conditions}
           [] OTHER -> {}

BodyKinds(body) == UNION {StatementKinds(body[i]) : i \in DOMAIN body}

\* C38: every statement node the parser appends to a block body, at any depth
\* and from any token list, has a kind run_ast's statement dispatch handles,
\* so the "Unhandled code operation" panic is out of reach of a parsed AST.
ParsedStatementsAreHandled ==
    Top.k = "parse" => BodyKinds(Top.body) \subseteq HandledOps

\* a parsed block in which every kind of statement occurs
AllKindsParsed ==
    /\ status = "parsed"
    /\ Top.k = "parse"
    /\ BodyKinds(Top.body) = HandledOps

=============================================================================
